---- MODULE Spec2Model ----
(***************************************************************************)
(* PSD extraction engine of Thesis_Workflow.                               *)
(*                                                                         *)
(* A punch file is a list of lines.  A line is modelled by the list of its *)
(* whitespace separated tokens (what line.split() returns); the blank line *)
(* is the empty list.  Tokens are strings; float() and int() are modelled  *)
(* by the tables FloatValue and IntValue, and a token outside a table      *)
(* makes the conversion raise ValueError.  Frequencies and responses are   *)
(* integers: the parsed floating values counted in tenths.                 *)
(*                                                                         *)
(* create_combined_data (Scripts/Pch_TO_CSV2.py) runs process_data_blocks  *)
(* and then extract_frequency over the same list of lines.  The second     *)
(* loop reads nothing the first one writes (it only touches                *)
(* data_dict['Frequency']), so the model runs the two loop bodies line by  *)
(* line, side by side, and keeps the line in the variable `line`.          *)
(*                                                                         *)
(* find_top_three_local_maxima is a function of one frame; it is also      *)
(* checked on its own, on frames longer than a file of MaxLines lines can  *)
(* give (SpecPeaks).  create_delta_files, compute_delta and verify_zero    *)
(* work on two tables read from CSV files (SpecDelta).                     *)
(***************************************************************************)
EXTENDS Integers, Sequences, FiniteSets, TLC

VARIABLES
    line,                \* the line the loops have just consumed
    nlines,              \* number of lines consumed so far
    pc,                  \* "scan" while lines are consumed, "done" after the return
    current_header,      \* process_data_blocks: key of the open block, or None
    data_dict,           \* channel key -> list of response values (file order)
    node_ids,            \* set of node id tokens
    acce_count,          \* number of `$ACCE` lines
    disp_count,          \* number of `$DISP` lines
    total_psd_columns,   \* number of channel series created
    total_frequencies,   \* number of frequencies put on the axis
    row_frequency,       \* history: channel key -> frequency tokens of the rows appended
    within_data_block,   \* extract_frequency: a block is open
    Frequency,           \* data_dict['Frequency']
    result,              \* return value of create_combined_data
    written,             \* the output files written
    acce_df_transposed,  \* acceleration table: Measurement, columns, Node -> cells
    disp_df_transposed,  \* displacement table
    current_type,        \* parse_pch_file: locals and the returned dictionary
    current_node,
    current_dof,
    current_data,
    stored_as,           \* key under which the list object current_data is stored in data
    data,
    temp_df,             \* find_top_three_local_maxima: the frame of one channel
    numpy_ties,          \* the order np.argsort gives to equal values
    is_local_maxima,     \* indices flagged by the scan of the smoothed series
    local_maximas,       \* the candidate (frequency, value) pairs, after the fill
    inflection_points,   \* the returned dictionary, or None
    current_df,          \* delta: the current table, as read from its CSV file
    baseline_df,         \* delta: the baseline table
    delta_df,            \* create_delta_files: the delta table written, or None
    delta_result,        \* create_delta_files: "running", "True" or "False"
    delta_warnings,      \* create_delta_files: columns it warned about
    measurement_warnings, \* the functions that warned that the Measurement columns differ
    delta,               \* compute_delta: the delta table written, or None
    compute_delta_result, \* compute_delta: "running", "returned" or "KeyError"
    exit_code,           \* verify_zero: sys.exit code per verified file
    token,               \* nastran_float: the argument s, a list of characters
    substituted,         \* nastran_float: s after the three re.sub calls
    nastran_result,      \* nastran_float: the value returned, or "ValueError"
    formatted,           \* float_to_nastran of the value returned, or None
    reparsed,            \* nastran_float of the formatted text, or None
    case_number,         \* sweep_case_to_bolt_level: the argument
    bolt_level,          \* sweep_case_to_bolt_level: the pair returned, or ValueError
    recovered_case,      \* bolt_level_to_sweep_case of the pair returned
    bolt_number,         \* bolt_level_to_sweep_case: the arguments
    level,
    sweep_case,          \* bolt_level_to_sweep_case: the case returned, or ValueError
    recovered_bolt_level, \* sweep_case_to_bolt_level of the case returned
    bolt_config,         \* generate_bush_blk: bolt id -> (nastran_str, float_val)
    bush_blk,            \* generate_bush_blk: the lines written to output_file
    bolt_stiffnesses,    \* generate_bush_blk_content: bolt id -> (K4, K5, K6)
    content              \* generate_bush_blk_content: the lines of the string returned

csvvars == <<current_header, data_dict, node_ids, acce_count, disp_count,
             total_psd_columns, total_frequencies, row_frequency, within_data_block,
             Frequency, result, written, acce_df_transposed, disp_df_transposed>>
dbvars == <<current_type, current_node, current_dof, current_data, stored_as, data>>
peakvars == <<temp_df, numpy_ties, is_local_maxima, local_maximas, inflection_points>>
deltavars == <<current_df, baseline_df, delta_df, delta_result, delta_warnings,
               measurement_warnings, delta, compute_delta_result, exit_code>>
literalvars == <<token, substituted, nastran_result, formatted, reparsed>>
casevars == <<case_number, bolt_level, recovered_case, bolt_number, level, sweep_case,
              recovered_bolt_level>>
bushvars == <<bolt_config, bush_blk, bolt_stiffnesses, content>>
toolvars == <<literalvars, casevars, bushvars>>
vars == <<line, nlines, pc, csvvars, dbvars, peakvars, deltavars, toolvars>>

----------------------------------------------------------------------------
(* Bounds of the model *)

MaxLines == 4
MaxSamples == 10
MaxLevel == 5
MaxShort == 4
MaxRows == 1

----------------------------------------------------------------------------
(* Python values *)

None == <<>>
NoLine == <<"<none>">>
NaN == [nan |-> TRUE]
Num(x) == [num |-> x]

(* float(token): the tokens that parse and their values, in tenths *)
FloatValue ==
    ("0" :> 0) @@ ("1" :> 10) @@ ("2" :> 20) @@ ("3" :> 30)
        @@ ("1.0" :> 10) @@ ("2.0" :> 20) @@ ("3.0" :> 30)
        @@ ("0.2" :> 2) @@ ("0.5" :> 5) @@ ("1.5" :> 15)
IsFloat(tok) == tok \in DOMAIN FloatValue

(* int(token) *)
IntValue ==
    ("0" :> 0) @@ ("1" :> 1) @@ ("3" :> 3) @@ ("6" :> 6) @@ ("9" :> 9)
        @@ ("5" :> 5) @@ ("222" :> 222)
IsInt(tok) == tok \in DOMAIN IntValue

(* parts[k] with Python's 0-based index *)
Part(parts, k) == parts[k + 1]

startswith(l, marker) == Len(l) > 0 /\ l[1] = marker
startswithDollar(l) == Len(l) > 0 /\ l[1] \in {"$ACCE", "$DISP", "$TITLE"}
strip(l) == Len(l) > 0

----------------------------------------------------------------------------
(* The lines of the input files *)

NodeTokens == {"0", "1"}
DofTokens == {"3", "x"}
FreqTokens == {"1", "2", "3", "x"}
ValueTokens == {"0", "1", "x"}

BlankLine == <<>>
HeaderLines ==
    {<<m, "0", n, d, "1">> : m \in {"$ACCE", "$DISP"}, n \in NodeTokens, d \in DofTokens}
ShortHeaderLines == {<<m, "0", "1">> : m \in {"$ACCE", "$DISP"}}
OtherDollarLines == {<<"$TITLE", "=", "x">>}
RowLines == {<<"10", f, v, "1">> : f \in FreqTokens, v \in ValueTokens}
NarrowRowLines == {<<"10", "1", "1">>}

Lines == {BlankLine} \cup HeaderLines \cup ShortHeaderLines \cup OtherDollarLines
            \cup RowLines \cup NarrowRowLines

----------------------------------------------------------------------------
(* determine_translation_id: f"UNKNOWN-{translation_id}" for the other codes *)

UnknownName == (0 :> "UNKNOWN-0") @@ (1 :> "UNKNOWN-1") @@ (9 :> "UNKNOWN-9")

determine_translation_id(translation_id) ==
    CASE translation_id = 3 -> "T1"
      [] translation_id = 4 -> "T2"
      [] translation_id = 5 -> "T3"
      [] translation_id = 6 -> "R1"
      [] translation_id = 7 -> "R2"
      [] translation_id = 8 -> "R3"
      [] OTHER -> UnknownName[translation_id]

dof_types == <<"T1", "T2", "T3", "R1", "R2", "R3">>

Range(s) == {s[i] : i \in 1..Len(s)}

----------------------------------------------------------------------------
(* process_data_blocks: the body of the loop, for one line l *)

HeaderKey(kind, l) ==
    <<kind, Part(l, 2), determine_translation_id(IntValue[Part(l, 3)])>>

(* int(parts[3]) raises ValueError; node_ids.add(node_id) has already run *)
channel_header_raises(l) ==
    /\ startswith(l, "$ACCE") \/ startswith(l, "$DISP")
    /\ Len(l) >= 5
    /\ ~IsInt(Part(l, 3))

(* channel_header with `data_dict[current_header] = []` run for every header *)
channel_header_replacing(kind, l) ==
    IF Len(l) >= 5
    THEN /\ node_ids' = node_ids \cup {Part(l, 2)}
         /\ current_header' = HeaderKey(kind, l)
         /\ total_psd_columns' = Cardinality(DOMAIN data_dict \cup {HeaderKey(kind, l)})
         /\ data_dict' = [k \in DOMAIN data_dict \cup {HeaderKey(kind, l)} |->
                             IF k = HeaderKey(kind, l) THEN <<>> ELSE data_dict[k]]
         /\ row_frequency' = [k \in DOMAIN data_dict \cup {HeaderKey(kind, l)} |->
                                 IF k = HeaderKey(kind, l) THEN <<>> ELSE row_frequency[k]]
    ELSE UNCHANGED <<node_ids, current_header, data_dict, row_frequency,
                     total_psd_columns>>

(* the `$ACCE` branch (kind = "ACCE") and the `$DISP` branch (kind = "DISP") *)
channel_header(kind, l) ==
    IF Len(l) >= 5
    THEN /\ node_ids' = node_ids \cup {Part(l, 2)}
         /\ current_header' = HeaderKey(kind, l)
         /\ IF HeaderKey(kind, l) \notin DOMAIN data_dict
            THEN /\ data_dict' = data_dict @@ (HeaderKey(kind, l) :> <<>>)
                 /\ row_frequency' = row_frequency @@ (HeaderKey(kind, l) :> <<>>)
                 /\ total_psd_columns' = total_psd_columns + 1
            ELSE UNCHANGED <<data_dict, row_frequency, total_psd_columns>>
    ELSE UNCHANGED <<node_ids, current_header, data_dict, row_frequency,
                     total_psd_columns>>

(* data_row with the block closed by a row that is not taken *)
data_row_closing(l) ==
    IF Len(l) >= 4 /\ IsFloat(Part(l, 2))
    THEN /\ data_dict' = [data_dict EXCEPT
                             ![current_header] = Append(@, FloatValue[Part(l, 2)])]
         /\ row_frequency' = [row_frequency EXCEPT
                                 ![current_header] = Append(@, Part(l, 1))]
         /\ UNCHANGED <<node_ids, current_header, total_psd_columns>>
    ELSE /\ current_header' = None
         /\ UNCHANGED <<node_ids, data_dict, row_frequency, total_psd_columns>>

(* the branch `elif line.strip() and current_header is not None` *)
data_row(l) ==
    /\ IF Len(l) >= 4 /\ IsFloat(Part(l, 2))
       THEN /\ data_dict' = [data_dict EXCEPT
                                ![current_header] = Append(@, FloatValue[Part(l, 2)])]
            /\ row_frequency' = [row_frequency EXCEPT
                                    ![current_header] = Append(@, Part(l, 1))]
       ELSE UNCHANGED <<data_dict, row_frequency>>
    /\ UNCHANGED <<node_ids, current_header, total_psd_columns>>

(* the branch `elif not line.strip()` *)
blank_line ==
    /\ current_header' = None
    /\ UNCHANGED <<node_ids, data_dict, row_frequency, total_psd_columns>>

(* acce_count += 1 and disp_count += 1, which run before line.split() *)
count_header(l) ==
    /\ acce_count' = IF startswith(l, "$ACCE") THEN acce_count + 1 ELSE acce_count
    /\ disp_count' = IF startswith(l, "$DISP") THEN disp_count + 1 ELSE disp_count

process_data_blocks(l) ==
    /\ count_header(l)
    /\ IF startswith(l, "$ACCE") THEN channel_header("ACCE", l)
       ELSE IF startswith(l, "$DISP") THEN channel_header("DISP", l)
       ELSE IF strip(l) /\ current_header # None THEN data_row(l)
       ELSE IF ~strip(l) THEN blank_line
       ELSE UNCHANGED <<node_ids, current_header, data_dict, row_frequency,
                        total_psd_columns>>

----------------------------------------------------------------------------
(* extract_frequency: the body of the loop, for one line l *)

frequency_row(l) ==
    IF /\ Len(l) >= 4
       /\ IsFloat(Part(l, 1))
       /\ FloatValue[Part(l, 1)] \notin Range(Frequency)
    THEN /\ Frequency' = Append(Frequency, FloatValue[Part(l, 1)])
         /\ total_frequencies' = total_frequencies + 1
    ELSE UNCHANGED <<Frequency, total_frequencies>>

extract_frequency(l) ==
    IF startswith(l, "$ACCE") \/ startswith(l, "$DISP")
    THEN /\ within_data_block' = TRUE
         /\ UNCHANGED <<Frequency, total_frequencies>>
    ELSE IF within_data_block
    THEN IF ~strip(l)
         THEN /\ within_data_block' = FALSE
              /\ UNCHANGED <<Frequency, total_frequencies>>
         ELSE /\ frequency_row(l)
              /\ UNCHANGED within_data_block
    ELSE UNCHANGED <<within_data_block, Frequency, total_frequencies>>

----------------------------------------------------------------------------
(* create_combined_data, after the two loops *)

RECURSIVE insert(_, _)
insert(x, s) ==
    IF s = <<>> THEN <<x>>
    ELSE IF x <= Head(s) THEN <<x>> \o s
    ELSE <<Head(s)>> \o insert(x, Tail(s))

(* sorted() of a list of numbers *)
RECURSIVE sorted(_)
sorted(s) == IF s = <<>> THEN <<>> ELSE insert(Head(s), sorted(Tail(s)))

(* a DataFrame that fits every column to the axis, cutting it or filling    *)
(* it with zeros                                                           *)
DataFrame_zero_filled(frequencies) ==
    [raised |-> FALSE,
     Frequency |-> frequencies,
     columns |-> [k \in DOMAIN data_dict |->
                    [i \in 1..Len(frequencies) |->
                        IF i <= Len(data_dict[k]) THEN data_dict[k][i] ELSE 0]]]

(* pd.DataFrame(data_dict) of a dictionary of lists: ValueError when the   *)
(* lists differ in length, otherwise one column per key                    *)
DataFrame(frequencies) ==
    IF \E k \in DOMAIN data_dict : Len(data_dict[k]) # Len(frequencies)
    THEN [raised |-> TRUE, Frequency |-> <<>>, columns |-> <<>>]
    ELSE [raised |-> FALSE, Frequency |-> frequencies, columns |-> data_dict]

(* original_df.empty: the frame always has the Frequency column *)
empty(df) == Len(df.Frequency) = 0

(* the left rectangle rule, doubled *)
RECURSIVE rectangle2(_, _)
rectangle2(y, x) ==
    IF Len(y) < 2 THEN 0
    ELSE 2 * (x[2] - x[1]) * y[1] + rectangle2(Tail(y), Tail(x))

(* twice np.trapz(y, x = x): the areas of the model are kept doubled so    *)
(* that they stay integers                                                 *)
RECURSIVE trapz2(_, _)
trapz2(y, x) ==
    IF Len(y) < 2 THEN 0
    ELSE (x[2] - x[1]) * (y[1] + y[2]) + trapz2(Tail(y), Tail(x))

----------------------------------------------------------------------------
(* find_top_three_local_maxima, for the one channel of the frame.  A       *)
(* sample is named by its index in the frame (1-based here).               *)

NumpyTies == {"stable", "reversed"}

(* window_size = min(5, len(psd_values) // 10 + 1) *)
window_size(n) == IF n \div 10 + 1 < 5 THEN n \div 10 + 1 ELSE 5

(* the sum of the w values psd_values[first], psd_values[first + 1], ...;   *)
(* np.convolve pads the series with zeros                                  *)
RECURSIVE moving_sum(_, _, _)
moving_sum(psd_values, first, w) ==
    IF w = 0 THEN 0
    ELSE (IF first \in 1..Len(psd_values) THEN psd_values[first] ELSE 0)
            + moving_sum(psd_values, first + 1, w - 1)

(* the series the scan compares.  np.convolve(psd_values, np.ones(w) / w,  *)
(* mode='same')[i] averages psd_values[i - w // 2 .. i - w // 2 + w - 1];  *)
(* the model keeps w times the average, which compares the same way        *)
smooth_psd(psd_values) ==
    LET w == window_size(Len(psd_values))
    IN  IF w > 1 /\ Len(psd_values) > w
        THEN [i \in 1..Len(psd_values) |-> moving_sum(psd_values, i - (w \div 2), w)]
        ELSE psd_values

(* the loop `for i in range(1, len(smooth_psd) - 1)` *)
strict_local_maxima(smooth) ==
    {i \in 2..(Len(smooth) - 1) : smooth[i] > smooth[i - 1] /\ smooth[i] > smooth[i + 1]}

(* np.argsort of the values at the indices S: the indices by ascending     *)
(* value.  numpy does not fix the order of equal values: they come by      *)
(* ascending index ("stable") or by descending index ("reversed")          *)
RECURSIVE argsort(_, _, _)
argsort(psd_values, S, ties) ==
    IF S = {} THEN <<>>
    ELSE LET lowest == CHOOSE i \in S : \A j \in S :
                          \/ psd_values[i] < psd_values[j]
                          \/ /\ psd_values[i] = psd_values[j]
                             /\ IF ties = "stable" THEN i <= j ELSE i >= j
         IN  <<lowest>> \o argsort(psd_values, S \ {lowest}, ties)

(* s[-3:] *)
last_three(s) == SubSeq(s, IF Len(s) > 3 THEN Len(s) - 2 ELSE 1, Len(s))

(* s[::-1] *)
reversed(s) == [i \in 1..Len(s) |-> s[Len(s) + 1 - i]]

(* np.where(mask)[0]: the indices of S in ascending order *)
RECURSIVE where(_)
where(S) ==
    IF S = {} THEN <<>>
    ELSE LET lowest == CHOOSE i \in S : \A j \in S : i <= j
         IN  <<lowest>> \o where(S \ {lowest})

(* top_indices taken from the lowest values *)
top_indices_lowest(psd_values, ties) ==
    Range(SubSeq(argsort(psd_values, 1..Len(psd_values), ties), 1,
                 IF Len(psd_values) > 3 THEN 3 ELSE Len(psd_values)))

(* top_indices = np.argsort(psd_values)[-3:] *)
top_indices(psd_values, ties) ==
    Range(last_three(argsort(psd_values, 1..Len(psd_values), ties)))

(* is_local_maxima after `if not np.any(is_local_maxima)` *)
flagged(psd_values, ties) ==
    LET found == strict_local_maxima(smooth_psd(psd_values))
    IN  IF found = {} THEN top_indices(psd_values, ties) ELSE found

(* the fill that takes the lowest non-maxima first *)
fill_lowest_first(psd_values, ties, mask) ==
    IF Cardinality(mask) < 3
    THEN SubSeq(argsort(psd_values, (1..Len(psd_values)) \ mask, ties), 1,
                IF Len(psd_values) - Cardinality(mask) < 3 - Cardinality(mask)
                THEN Len(psd_values) - Cardinality(mask)
                ELSE 3 - Cardinality(mask))
    ELSE <<>>

(* the indices appended by `if len(local_maximas) < 3`: the non-maxima by  *)
(* descending value, until there are 3 candidates or none is left          *)
fill(psd_values, ties, mask) ==
    IF Cardinality(mask) < 3
    THEN SubSeq(reversed(argsort(psd_values, (1..Len(psd_values)) \ mask, ties)), 1,
                IF Len(psd_values) - Cardinality(mask) < 3 - Cardinality(mask)
                THEN Len(psd_values) - Cardinality(mask)
                ELSE 3 - Cardinality(mask))
    ELSE <<>>

(* local_maximas without the fill: the flagged samples alone *)
candidates_flagged_only(psd_values, ties) ==
    where(flagged(psd_values, ties))

(* local_maximas, as indices: the flagged samples, then the fill *)
candidates(psd_values, ties) ==
    LET mask == flagged(psd_values, ties)
    IN  where(mask) \o fill(psd_values, ties, mask)

(* sorted(s, key = ...): Python's sort is stable *)
RECURSIVE insert_by(_, _, _)
insert_by(x, s, key) ==
    IF s = <<>> THEN <<x>>
    ELSE IF key[x] <= key[Head(s)] THEN <<x>> \o s
    ELSE <<Head(s)>> \o insert_by(x, Tail(s), key)

RECURSIVE sorted_by(_, _)
sorted_by(s, key) ==
    IF s = <<>> THEN <<>> ELSE insert_by(Head(s), sorted_by(Tail(s), key), key)

(* the three highest candidates left in descending value order *)
local_maximas_by_value(frequencies, psd_values, ties) ==
    LET found == candidates(psd_values, ties)
    IN  SubSeq(sorted_by(found, [i \in 1..Len(psd_values) |-> 0 - psd_values[i]]),
               1, IF Len(found) > 3 THEN 3 ELSE Len(found))

(* sorted(local_maximas, key = value, reverse = True)[:3], then sorted by  *)
(* frequency                                                               *)
local_maximas_sorted(frequencies, psd_values, ties) ==
    LET found == candidates(psd_values, ties)
    IN  sorted_by(SubSeq(sorted_by(found, [i \in 1..Len(psd_values) |-> 0 - psd_values[i]]),
                         1, IF Len(found) > 3 THEN 3 ELSE Len(found)),
                  frequencies)

Frequency_key == <<"Frequency_1", "Frequency_2", "Frequency_3">>
PSD_key == <<"PSD_1", "PSD_2", "PSD_3">>

(* the dictionary with the missing ranks filled with the last peak found *)
inflection_point_dict_repeating(frequencies, psd_values, ties) ==
    LET peaks == local_maximas_sorted(frequencies, psd_values, ties)
        slot(rank) == IF rank <= Len(peaks) THEN peaks[rank] ELSE peaks[Len(peaks)]
    IN  [k \in Range(Frequency_key) \cup Range(PSD_key) |->
            LET rank == CHOOSE r \in 1..3 : Frequency_key[r] = k \/ PSD_key[r] = k
            IN  IF k \in Range(Frequency_key) THEN Num(frequencies[slot(rank)])
                ELSE Num(psd_values[slot(rank)])]

(* inflection_point_dict: Frequency_{rank} and PSD_{rank} of the peaks     *)
(* found, np.nan for the missing ranks                                     *)
inflection_point_dict(frequencies, psd_values, ties) ==
    LET peaks == local_maximas_sorted(frequencies, psd_values, ties)
    IN  [k \in Range(Frequency_key) \cup Range(PSD_key) |->
            LET rank == CHOOSE r \in 1..3 : Frequency_key[r] = k \/ PSD_key[r] = k
            IN  IF rank > Len(peaks) THEN NaN
                ELSE IF k \in Range(Frequency_key) THEN Num(frequencies[peaks[rank]])
                ELSE Num(psd_values[peaks[rank]])]

find_top_three_local_maxima(frequencies, psd_values, ties) ==
    inflection_point_dict(frequencies, psd_values, ties)

----------------------------------------------------------------------------
(* The tables of create_combined_data *)

(* ACCE_MEASUREMENTS and DISP_MEASUREMENTS.  A name "ACCE_T1_Frequency_1"  *)
(* is kept as its parts <<"ACCE", "T1", "Frequency_1">>, so that the       *)
(* f-strings of the name mappings can be built                             *)
ACCE_MEASUREMENTS ==
    <<
       <<"ACCE", "T1", "Area">>, <<"ACCE", "T1", "Frequency_1">>, <<"ACCE", "T1", "PSD_1">>,
       <<"ACCE", "T1", "Frequency_2">>, <<"ACCE", "T1", "PSD_2">>,
       <<"ACCE", "T1", "Frequency_3">>, <<"ACCE", "T1", "PSD_3">>,
       <<"ACCE", "T2", "Area">>, <<"ACCE", "T2", "Frequency_1">>, <<"ACCE", "T2", "PSD_1">>,
       <<"ACCE", "T2", "Frequency_2">>, <<"ACCE", "T2", "PSD_2">>,
       <<"ACCE", "T2", "Frequency_3">>, <<"ACCE", "T2", "PSD_3">>,
       <<"ACCE", "T3", "Area">>, <<"ACCE", "T3", "Frequency_1">>, <<"ACCE", "T3", "PSD_1">>,
       <<"ACCE", "T3", "Frequency_2">>, <<"ACCE", "T3", "PSD_2">>,
       <<"ACCE", "T3", "Frequency_3">>, <<"ACCE", "T3", "PSD_3">>,
       <<"ACCE", "R1", "Area">>, <<"ACCE", "R1", "Frequency_1">>, <<"ACCE", "R1", "PSD_1">>,
       <<"ACCE", "R1", "Frequency_2">>, <<"ACCE", "R1", "PSD_2">>,
       <<"ACCE", "R1", "Frequency_3">>, <<"ACCE", "R1", "PSD_3">>,
       <<"ACCE", "R2", "Area">>, <<"ACCE", "R2", "Frequency_1">>, <<"ACCE", "R2", "PSD_1">>,
       <<"ACCE", "R2", "Frequency_2">>, <<"ACCE", "R2", "PSD_2">>,
       <<"ACCE", "R2", "Frequency_3">>, <<"ACCE", "R2", "PSD_3">>,
       <<"ACCE", "R3", "Area">>, <<"ACCE", "R3", "Frequency_1">>, <<"ACCE", "R3", "PSD_1">>,
       <<"ACCE", "R3", "Frequency_2">>, <<"ACCE", "R3", "PSD_2">>,
       <<"ACCE", "R3", "Frequency_3">>, <<"ACCE", "R3", "PSD_3">>
    >>

DISP_MEASUREMENTS ==
    <<
       <<"DISP", "T1", "Area">>, <<"DISP", "T1", "Frequency_1">>, <<"DISP", "T1", "DISP_1">>,
       <<"DISP", "T1", "Frequency_2">>, <<"DISP", "T1", "DISP_2">>,
       <<"DISP", "T1", "Frequency_3">>, <<"DISP", "T1", "DISP_3">>,
       <<"DISP", "T2", "Area">>, <<"DISP", "T2", "Frequency_1">>, <<"DISP", "T2", "DISP_1">>,
       <<"DISP", "T2", "Frequency_2">>, <<"DISP", "T2", "DISP_2">>,
       <<"DISP", "T2", "Frequency_3">>, <<"DISP", "T2", "DISP_3">>,
       <<"DISP", "T3", "Area">>, <<"DISP", "T3", "Frequency_1">>, <<"DISP", "T3", "DISP_1">>,
       <<"DISP", "T3", "Frequency_2">>, <<"DISP", "T3", "DISP_2">>,
       <<"DISP", "T3", "Frequency_3">>, <<"DISP", "T3", "DISP_3">>,
       <<"DISP", "R1", "Area">>, <<"DISP", "R1", "Frequency_1">>, <<"DISP", "R1", "DISP_1">>,
       <<"DISP", "R1", "Frequency_2">>, <<"DISP", "R1", "DISP_2">>,
       <<"DISP", "R1", "Frequency_3">>, <<"DISP", "R1", "DISP_3">>,
       <<"DISP", "R2", "Area">>, <<"DISP", "R2", "Frequency_1">>, <<"DISP", "R2", "DISP_1">>,
       <<"DISP", "R2", "Frequency_2">>, <<"DISP", "R2", "DISP_2">>,
       <<"DISP", "R2", "Frequency_3">>, <<"DISP", "R2", "DISP_3">>,
       <<"DISP", "R3", "Area">>, <<"DISP", "R3", "Frequency_1">>, <<"DISP", "R3", "DISP_1">>,
       <<"DISP", "R3", "Frequency_2">>, <<"DISP", "R3", "DISP_2">>,
       <<"DISP", "R3", "Frequency_3">>, <<"DISP", "R3", "DISP_3">>
    >>

(* the keys f'{dof}_Area', f'{dof}_Frequency_{i}', f'{dof}_PSD_{i}' of     *)
(* acce_node_data and disp_node_data, as <<dof, "Area">>, ...              *)
NodeDataKeys ==
    {<<dof, m>> : dof \in Range(dof_types),
                  m \in {"Area"} \cup Range(Frequency_key) \cup Range(PSD_key)}

(* node_data with 0 for every channel that is absent *)
node_data_zero_if_absent(df, kind, node_id, dof, ties) ==
    LET maxima_data == find_top_three_local_maxima(df.Frequency,
                           df.columns[<<kind, node_id, dof>>], ties)
        area == trapz2(df.columns[<<kind, node_id, dof>>], df.Frequency)
    IN  [m \in {"Area"} \cup Range(Frequency_key) \cup Range(PSD_key) |->
            IF <<kind, node_id, dof>> \in DOMAIN df.columns
            THEN IF m = "Area" THEN Num(area) ELSE maxima_data[m]
            ELSE Num(0)]

(* the 7 values of one (response kind, node, dof): the area (doubled) and   *)
(* the peaks of a channel of the frame, 0 for an absent rotational         *)
(* acceleration, np.nan for any other absent channel                       *)
node_data(df, kind, node_id, dof, ties) ==
    LET maxima_data == find_top_three_local_maxima(df.Frequency,
                           df.columns[<<kind, node_id, dof>>], ties)
        area == trapz2(df.columns[<<kind, node_id, dof>>], df.Frequency)
    IN  [m \in {"Area"} \cup Range(Frequency_key) \cup Range(PSD_key) |->
            IF <<kind, node_id, dof>> \in DOMAIN df.columns
            THEN IF m = "Area" THEN Num(area) ELSE maxima_data[m]
            ELSE IF kind = "ACCE" /\ dof \in {"R1", "R2", "R3"}
            THEN Num(0)
            ELSE NaN]

(* acce_node_data / disp_node_data of one node *)
kind_node_data(df, kind, node_id, ties) ==
    LET of_dof == [dof \in Range(dof_types) |-> node_data(df, kind, node_id, dof, ties)]
    IN  [s \in NodeDataKeys |-> of_dof[s[1]][s[2]]]

(* acce_name_mapping: f'{dof}_Area' -> f'ACCE_{dof}_Area', ... *)
acce_name_mapping == [s \in NodeDataKeys |-> <<"ACCE", s[1], s[2]>>]

DISP_key == <<"DISP_1", "DISP_2", "DISP_3">>

(* disp_name_mapping: f'{dof}_PSD_{i}' -> f'DISP_{dof}_DISP_{i}' *)
disp_name_mapping ==
    [s \in NodeDataKeys |->
        IF s[2] \in Range(PSD_key)
        THEN <<"DISP", s[1], DISP_key[CHOOSE i \in 1..3 : PSD_key[i] = s[2]]>>
        ELSE <<"DISP", s[1], s[2]>>]

measurements(kind) == IF kind = "ACCE" THEN ACCE_MEASUREMENTS ELSE DISP_MEASUREMENTS

(* std_name of each measurement name: the key the mapping sends to it, or  *)
(* None                                                                    *)
std_names(measurement_names, name_mapping) ==
    [r \in 1..Len(measurement_names) |->
        IF \E s \in DOMAIN name_mapping : name_mapping[s] = measurement_names[r]
        THEN <<CHOOSE s \in DOMAIN name_mapping : name_mapping[s] = measurement_names[r]>>
        ELSE None]

acce_std_names == std_names(ACCE_MEASUREMENTS, acce_name_mapping)
disp_std_names == std_names(DISP_MEASUREMENTS, disp_name_mapping)

(* acce_values / disp_values: for each measurement name the value under    *)
(* its standard name, np.nan when it has none                              *)
column_values(kind, values) ==
    [r \in 1..Len(measurements(kind)) |->
        LET std_name == IF kind = "ACCE" THEN acce_std_names[r] ELSE disp_std_names[r]
        IN  IF std_name # None THEN values[std_name[1]] ELSE NaN]

(* x.isdigit(), for the tokens of the model *)
isdigit(x) == x \in DOMAIN IntValue

(* key(a) <= key(b) for key = lambda x: int(x) if x.isdigit() else float('inf') *)
key_le(a, b) ==
    IF isdigit(a) THEN ~isdigit(b) \/ IntValue[a] <= IntValue[b] ELSE ~isdigit(b)

RECURSIVE insert_node(_, _)
insert_node(x, s) ==
    IF s = <<>> THEN <<x>>
    ELSE IF key_le(x, Head(s)) THEN <<x>> \o s
    ELSE <<Head(s)>> \o insert_node(x, Tail(s))

(* sorted(node_ids, key = ...) of the node ids taken in the order           *)
(* `iteration`; the sort is stable                                         *)
RECURSIVE sorted_node_ids(_)
sorted_node_ids(iteration) ==
    IF iteration = <<>> THEN <<>>
    ELSE insert_node(Head(iteration), sorted_node_ids(Tail(iteration)))

(* the orders in which a set of strings can be iterated *)
Iterations(S) ==
    {s \in [1..Cardinality(S) -> S] :
        \A i, j \in 1..Cardinality(S) : s[i] = s[j] => i = j}

(* a table whose rows are the measurements of the channels of the input *)
transposed_of_channels(df, kind, order, ties) ==
    LET HasChannel(name) == \E n \in node_ids : <<kind, n, name[2]>> \in DOMAIN df.columns
    IN  [Measurement |-> SelectSeq(measurements(kind), HasChannel),
         columns |-> order,
         Node |-> [n \in node_ids |->
                     column_values(kind, kind_node_data(df, kind, n, ties))]]

(* acce_df_transposed / disp_df_transposed: the Measurement column, the     *)
(* Node_{id} columns in the order `order`, and the values of each column   *)
transposed(df, kind, order, ties) ==
    [Measurement |-> measurements(kind),
     columns |-> order,
     Node |-> [n \in node_ids |-> column_values(kind, kind_node_data(df, kind, n, ties))]]

OutputFiles == {"acce_output_filename", "disp_output_filename"}

----------------------------------------------------------------------------
(* parse_pch_file (heeds/database/Pch_TO_Database.py): the body of the     *)
(* loop, for one line l.  A local that may be None is None or <<value>>.   *)

Some(x) == <<x>>

(* dof_mapping.get(dof_num, f'DOF{dof_num}') *)
DOFName == (0 :> "DOF0") @@ (1 :> "DOF1") @@ (9 :> "DOF9")
dof_mapping(dof_num) ==
    CASE dof_num = 3 -> "T1"
      [] dof_num = 4 -> "T2"
      [] dof_num = 5 -> "T3"
      [] dof_num = 6 -> "R1"
      [] dof_num = 7 -> "R2"
      [] dof_num = 8 -> "R3"
      [] OTHER -> DOFName[dof_num]

(* `current_type and current_node and current_dof and current_data`: None, *)
(* the integer 0 and the empty list are false                              *)
block_is_saved ==
    /\ current_type # None
    /\ current_node # None /\ current_node[1] # 0
    /\ current_dof # None
    /\ current_data # <<>>

current_key == <<current_type[1], current_node[1], current_dof[1]>>

(* data[current_type][key] = current_data: the dictionary holds the list   *)
(* object itself, not a copy                                               *)
save_block(d) ==
    IF block_is_saved
    THEN IF current_key \in DOMAIN d
         THEN [d EXCEPT ![current_key] = current_data]
         ELSE d @@ (current_key :> current_data)
    ELSE d

saved_as == IF block_is_saved THEN current_key ELSE stored_as

(* int(parts[2]) or int(parts[3]) raises ValueError out of parse_pch_file *)
pch_header_raises(l) ==
    /\ startswith(l, "$ACCE") \/ startswith(l, "$DISP")
    /\ Len(l) >= 5
    /\ ~IsInt(Part(l, 2)) \/ ~IsInt(Part(l, 3))

pch_header(type, l) ==
    /\ data' = save_block(data)
    /\ IF Len(l) >= 5
       THEN /\ current_type' = Some(type)
            /\ current_node' = Some(IntValue[Part(l, 2)])
            /\ current_dof' = Some(dof_mapping(IntValue[Part(l, 3)]))
            /\ current_data' = <<>>
            /\ stored_as' = None
       ELSE /\ stored_as' = saved_as
            /\ UNCHANGED <<current_type, current_node, current_dof, current_data>>

pch_other_header ==
    /\ data' = save_block(data)
    /\ current_type' = None
    /\ current_node' = None
    /\ current_dof' = None
    /\ current_data' = <<>>
    /\ stored_as' = None

(* current_data.append(...) also changes the list stored in data *)
pch_data_row(l) ==
    /\ IF Len(l) >= 3 /\ IsFloat(Part(l, 1)) /\ IsFloat(Part(l, 2))
       THEN /\ current_data' =
                  Append(current_data, <<FloatValue[Part(l, 1)], FloatValue[Part(l, 2)]>>)
            /\ data' = IF stored_as # None
                       THEN [data EXCEPT ![stored_as] = Append(@,
                                <<FloatValue[Part(l, 1)], FloatValue[Part(l, 2)]>>)]
                       ELSE data
       ELSE UNCHANGED <<current_data, data>>
    /\ UNCHANGED <<current_type, current_node, current_dof, stored_as>>

parse_pch_file(l) ==
    IF startswith(l, "$ACCE") THEN pch_header("acceleration", l)
    ELSE IF startswith(l, "$DISP") THEN pch_header("displacement", l)
    ELSE IF startswithDollar(l) THEN pch_other_header
    ELSE IF current_type # None /\ strip(l) THEN pch_data_row(l)
    ELSE UNCHANGED dbvars

----------------------------------------------------------------------------
(* The actions *)

(* nothing read yet *)
ScanIdle ==
    /\ line = NoLine
    /\ nlines = 0
    /\ current_header = None
    /\ data_dict = <<>>
    /\ node_ids = {}
    /\ acce_count = 0
    /\ disp_count = 0
    /\ total_psd_columns = 0
    /\ total_frequencies = 0
    /\ row_frequency = <<>>
    /\ within_data_block = FALSE
    /\ Frequency = <<>>
    /\ result = "running"
    /\ written = {}
    /\ acce_df_transposed = <<>>
    /\ disp_df_transposed = <<>>
    /\ current_type = None
    /\ current_node = None
    /\ current_dof = None
    /\ current_data = <<>>
    /\ stored_as = None
    /\ data = <<>>

(* find_top_three_local_maxima not called *)
PeaksIdle ==
    /\ temp_df = None
    /\ numpy_ties = "stable"
    /\ is_local_maxima = {}
    /\ local_maximas = <<>>
    /\ inflection_points = None

(* no delta asked for *)
DeltaIdle ==
    /\ current_df = None
    /\ baseline_df = None
    /\ delta_df = None
    /\ delta_result = "running"
    /\ delta_warnings = {}
    /\ measurement_warnings = {}
    /\ delta = None
    /\ compute_delta_result = "running"
    /\ exit_code = <<>>

(* nastran_float and float_to_nastran not called *)
LiteralIdle ==
    /\ token = None
    /\ substituted = None
    /\ nastran_result = None
    /\ formatted = None
    /\ reparsed = None

(* the case mapping not called *)
CaseIdle ==
    /\ case_number = None
    /\ bolt_level = None
    /\ recovered_case = None
    /\ bolt_number = None
    /\ level = None
    /\ sweep_case = None
    /\ recovered_bolt_level = None

(* no Bush.blk generated *)
BushIdle ==
    /\ bolt_config = None
    /\ bush_blk = None
    /\ bolt_stiffnesses = None
    /\ content = None

ToolsIdle == LiteralIdle /\ CaseIdle /\ BushIdle

Init ==
    /\ pc = "scan"
    /\ ScanIdle
    /\ PeaksIdle
    /\ DeltaIdle
    /\ ToolsIdle

(* One more line of the file goes through both loops.  A ValueError out of *)
(* process_data_blocks is caught by create_combined_data (lines 606-610),  *)
(* which returns False before extract_frequency has run.                   *)
ScanLine(l) ==
    /\ pc = "scan"
    /\ nlines < MaxLines
    /\ line' = l
    /\ nlines' = nlines + 1
    /\ IF channel_header_raises(l)
       THEN /\ count_header(l)
            /\ node_ids' = node_ids \cup {Part(l, 2)}
            /\ pc' = "done"
            /\ result' = "False"
            /\ Frequency' = <<>>
            /\ total_frequencies' = 0
            /\ within_data_block' = FALSE
            /\ UNCHANGED <<current_header, data_dict, row_frequency, total_psd_columns>>
       ELSE /\ process_data_blocks(l)
            /\ extract_frequency(l)
            /\ UNCHANGED <<pc, result>>
    /\ UNCHANGED <<written, acce_df_transposed, disp_df_transposed, dbvars,
                   peakvars, deltavars, toolvars>>

(* End of the file: the rest of create_combined_data (lines 416-610) *)
create_combined_data ==
    /\ pc = "scan"
    /\ pc' = "done"
    /\ Frequency' = sorted(Frequency)
    /\ LET original_df == DataFrame(sorted(Frequency))
       IN  IF original_df.raised \/ empty(original_df)
           THEN /\ result' = "False"
                /\ UNCHANGED <<written, acce_df_transposed, disp_df_transposed>>
           ELSE /\ result' = "True"
                /\ \E iteration \in Iterations(node_ids), ties \in NumpyTies :
                      /\ acce_df_transposed' =
                            transposed(original_df, "ACCE", sorted_node_ids(iteration), ties)
                      /\ disp_df_transposed' =
                            transposed(original_df, "DISP", sorted_node_ids(iteration), ties)
                /\ written' = OutputFiles
    /\ UNCHANGED <<line, nlines, current_header, data_dict, node_ids, acce_count,
                   disp_count, total_psd_columns, total_frequencies, row_frequency,
                   within_data_block, dbvars, peakvars, deltavars, toolvars>>

Next ==
    \/ \E l \in Lines : ScanLine(l)
    \/ create_combined_data

Spec == Init /\ [][Next]_vars

(* parse_pch_file reads one more line; a ValueError from int() leaves the   *)
(* function, and the dictionary built so far is not returned               *)
PchLine(l) ==
    /\ pc = "scan"
    /\ nlines < MaxLines
    /\ line' = l
    /\ nlines' = nlines + 1
    /\ IF pch_header_raises(l)
       THEN /\ pc' = "done"
            /\ result' = "raised"
            /\ UNCHANGED dbvars
       ELSE /\ parse_pch_file(l)
            /\ UNCHANGED <<pc, result>>
    /\ UNCHANGED <<current_header, data_dict, node_ids, acce_count, disp_count,
                   total_psd_columns, total_frequencies, row_frequency,
                   within_data_block, Frequency, written, acce_df_transposed,
                   disp_df_transposed, peakvars, deltavars, toolvars>>

(* End of the file: "Save last data block" and return data *)
PchReturn ==
    /\ pc = "scan"
    /\ pc' = "done"
    /\ result' = "returned"
    /\ data' = save_block(data)
    /\ stored_as' = saved_as
    /\ UNCHANGED <<line, nlines, current_type, current_node, current_dof, current_data>>
    /\ UNCHANGED <<current_header, data_dict, node_ids, acce_count, disp_count,
                   total_psd_columns, total_frequencies, row_frequency,
                   within_data_block, Frequency, written, acce_df_transposed,
                   disp_df_transposed, peakvars, deltavars, toolvars>>

NextDB ==
    \/ \E l \in Lines : PchLine(l)
    \/ PchReturn

SpecDB == Init /\ [][NextDB]_vars

(* process_data_blocks and parse_pch_file read the same file: one more     *)
(* line goes through both loop bodies.  A ValueError from int() leaves     *)
(* either function before anything is returned                             *)
BothLine(l) ==
    /\ pc = "scan"
    /\ nlines < MaxLines
    /\ line' = l
    /\ nlines' = nlines + 1
    /\ IF channel_header_raises(l) \/ pch_header_raises(l)
       THEN /\ pc' = "done"
            /\ result' = "raised"
            /\ UNCHANGED <<current_header, data_dict, node_ids, acce_count, disp_count,
                           total_psd_columns, row_frequency, dbvars>>
       ELSE /\ process_data_blocks(l)
            /\ parse_pch_file(l)
            /\ UNCHANGED <<pc, result>>
    /\ UNCHANGED <<total_frequencies, within_data_block, Frequency, written,
                   acce_df_transposed, disp_df_transposed, peakvars, deltavars, toolvars>>

(* End of the file: process_data_blocks returns, parse_pch_file saves the  *)
(* last block and returns data                                             *)
BothReturn ==
    /\ pc = "scan"
    /\ pc' = "done"
    /\ result' = "returned"
    /\ data' = save_block(data)
    /\ stored_as' = saved_as
    /\ UNCHANGED <<line, nlines, current_type, current_node, current_dof, current_data>>
    /\ UNCHANGED <<current_header, data_dict, node_ids, acce_count, disp_count,
                   total_psd_columns, total_frequencies, row_frequency,
                   within_data_block, Frequency, written, acce_df_transposed,
                   disp_df_transposed, peakvars, deltavars, toolvars>>

NextBoth ==
    \/ \E l \in Lines : BothLine(l)
    \/ BothReturn

SpecBoth == Init /\ [][NextBoth]_vars

----------------------------------------------------------------------------
(* create_combined_data on files with the node ids, the DOF codes and the   *)
(* rows of the tables' examples                                            *)

TableNodeTokens == {"5", "222", "N1", "N2"}
TableHeaderLines ==
    {<<"$ACCE", "0", n, d, "1">> : n \in TableNodeTokens, d \in {"3", "6"}}
        \cup {<<"$DISP", "0", "222", d, "1">> : d \in {"3", "6"}}
TableRowLines ==
    {<<"10", "1.0", "0.5", "1">>, <<"10", "2.0", "1.5", "1">>, <<"10", "3.0", "0.2", "1">>}
TableLines == {BlankLine} \cup TableHeaderLines \cup TableRowLines

NextTable ==
    \/ \E l \in TableLines : ScanLine(l)
    \/ create_combined_data

SpecTable == Init /\ [][NextTable]_vars

----------------------------------------------------------------------------
(* create_combined_data on files whose rows carry tokens in the solver's   *)
(* compact exponent form.  "1.+1" is 1. x 10^1 and "5.-1" is 5. x 10^-1;   *)
(* Python's float() takes a sign inside a literal only after e or E, so    *)
(* float() of such a token raises ValueError: the tokens are outside       *)
(* FloatValue                                                              *)

CompactTokens == {"1.+1", "5.-1"}
CompactHeaderLines == {<<"$ACCE", "0", "1", "3", "1">>}
CompactRowLines ==
    {<<"10", f, v, "1">> : f \in {"1", "1.+1"}, v \in {"1", "5.-1"}}
CompactLines == {BlankLine} \cup CompactHeaderLines \cup CompactRowLines

NextCompact ==
    \/ \E l \in CompactLines : ScanLine(l)
    \/ create_combined_data

SpecCompact == Init /\ [][NextCompact]_vars

----------------------------------------------------------------------------
(* find_top_three_local_maxima on one frame *)

PsdLevels == {0, 1}

(* the sorted axis 1.0, 2.0, ... of n frequencies *)
axis(n) == [i \in 1..n |-> 10 * i]

(* every series of at most MaxSamples samples over two levels, and every   *)
(* series of at most MaxShort samples over the levels 0..MaxLevel          *)
Series ==
    UNION {[1..n -> PsdLevels] : n \in 1..MaxSamples}
        \cup UNION {[1..n -> 0..MaxLevel] : n \in 1..MaxShort}

(* the series over two levels with the first or the last sample raised     *)
(* above both levels                                                       *)
EndpointPeaks ==
    UNION {UNION {{[s EXCEPT ![1] = 2], [s EXCEPT ![n] = 2]} : s \in [1..n -> PsdLevels]} :
              n \in 2..MaxSamples}

(* the series that rise strictly to one interior maximum and then fall      *)
(* strictly, over the levels 0..MaxLevel                                   *)
Bumps ==
    UNION {{where(L) \o <<top>> \o reversed(where(R)) :
                L \in SUBSET (0..(top - 1)) \ {{}}, R \in SUBSET (0..(top - 1)) \ {{}}} :
           top \in 1..MaxLevel}

InitPeaks ==
    /\ pc = "peaks"
    /\ ScanIdle
    /\ DeltaIdle
    /\ ToolsIdle
    /\ numpy_ties \in NumpyTies
    /\ \E psd_values \in Series \cup Bumps \cup EndpointPeaks :
          temp_df = [Frequency |-> axis(Len(psd_values)), values |-> psd_values]
    /\ is_local_maxima = {}
    /\ local_maximas = <<>>
    /\ inflection_points = None

(* the call find_top_three_local_maxima(temp_df)[0]; is_local_maxima is     *)
(* kept as it is after the scan, before the fallback                       *)
FindTopThree ==
    /\ pc = "peaks"
    /\ pc' = "done"
    /\ is_local_maxima' = strict_local_maxima(smooth_psd(temp_df.values))
    /\ LET found == candidates(temp_df.values, numpy_ties)
       IN  local_maximas' =
              [i \in 1..Len(found) |->
                  <<temp_df.Frequency[found[i]], temp_df.values[found[i]]>>]
    /\ inflection_points' =
          find_top_three_local_maxima(temp_df.Frequency, temp_df.values, numpy_ties)
    /\ UNCHANGED <<line, nlines, csvvars, dbvars, temp_df, numpy_ties, deltavars,
                   toolvars>>

NextPeaks == FindTopThree

SpecPeaks == InitPeaks /\ [][NextPeaks]_vars

----------------------------------------------------------------------------
(* The delta of two tables (create_delta_files, compute_delta) and         *)
(* verify_zero.  A table read by pd.read_csv is its Measurement column and *)
(* its Node_ columns; an empty cell is read as NaN.  The values are        *)
(* counted in units of 1e-7, so that 1e-6 is 10.  create_delta_files does  *)
(* the same to the acceleration pair and to the displacement pair of       *)
(* tables; the model follows one pair.                                     *)

(* the 1e-6 of `0 if abs(x) < 1e-6 else x` *)
deadband_width == 10

(* the default tolerance of verify_zero *)
tolerance == 10

abs(x) == IF x < 0 THEN 0 - x ELSE x

(* lambda x: 0 if abs(x) < 1e-6 else x; abs(nan) < 1e-6 is False *)
deadband(x) ==
    IF x = NaN THEN NaN
    ELSE IF abs(x.num) < deadband_width THEN Num(0)
    ELSE x

(* row r of a column after index alignment: NaN for a row the column lacks *)
at(column, r) == IF r <= Len(column) THEN column[r] ELSE NaN

(* baseline.subtract(current, fill_value = 0) at one row: a cell missing   *)
(* on one side counts as 0, a cell missing on both sides stays missing     *)
subtract_fill_value_0(b, c) ==
    IF b = NaN /\ c = NaN THEN NaN
    ELSE Num((IF b = NaN THEN 0 ELSE b.num) - (IF c = NaN THEN 0 ELSE c.num))

(* baseline - current at one row *)
minus(b, c) == IF b = NaN \/ c = NaN THEN NaN ELSE Num(b.num - c.num)

(* the node columns of a table: the columns other than 'Measurement' *)
node_cols(df) == DOMAIN df.Node

(* delta_acce_df after the loop over acce_node_cols *)
create_delta(current, baseline) ==
    [Measurement |-> current.Measurement,
     Node |-> [col \in node_cols(current) |->
                 IF col \in node_cols(baseline)
                 THEN [r \in 1..Len(current.Measurement) |->
                         deadband(subtract_fill_value_0(at(baseline.Node[col], r),
                                                        current.Node[col][r]))]
                 ELSE current.Node[col]]]

(* `if not current['Measurement'].equals(baseline['Measurement'])`: the     *)
(* warning that the Measurement columns do not match                       *)
measurement_mismatch(current, baseline) == current.Measurement # baseline.Measurement

(* the columns create_delta_files prints a WARNING for *)
warned(current, baseline) == node_cols(current) \ node_cols(baseline)

(* compute_delta: baseline[col] raises KeyError for a column of current    *)
(* that baseline lacks                                                     *)
compute_delta_raises(current, baseline) ==
    \E col \in node_cols(current) : col \notin node_cols(baseline)

(* delta = baseline.copy(), then delta[col] for each column of current *)
compute_delta(current, baseline) ==
    [Measurement |-> baseline.Measurement,
     Node |-> [col \in node_cols(baseline) |->
                 IF col \in node_cols(current)
                 THEN [r \in 1..Len(baseline.Measurement) |->
                         deadband(minus(baseline.Node[col][r], at(current.Node[col], r)))]
                 ELSE baseline.Node[col]]]

(* verify_zero: failed when delta[col].abs().max() > tolerance for some    *)
(* column; max() skips NaN, and NaN > tolerance is False                   *)
verify_zero(df) ==
    IF \E col \in node_cols(df) : \E r \in 1..Len(df.Node[col]) :
          df.Node[col][r] # NaN /\ abs(df.Node[col][r].num) > tolerance
    THEN 1
    ELSE 0

NodeColumns == {"Node_1", "Node_2"}
CellValues == {NaN, Num(0), Num(5), Num(15)}
FewCellValues == {NaN, Num(15)}

(* the Measurement columns of n rows: the first n names of the schema, or  *)
(* the n names after the first one (a table that lacks the first row)      *)
MeasurementColumns(n) ==
    {SubSeq(ACCE_MEASUREMENTS, 1, n), SubSeq(ACCE_MEASUREMENTS, 2, n + 1)}

(* the tables of n rows: Node_1 and Node_2 are each there or not *)
CsvTablesOf(n) ==
    {[Measurement |-> names, Node |-> cols] :
        names \in MeasurementColumns(n),
        cols \in UNION {[S -> [1..n -> CellValues]] : S \in SUBSET {"Node_1"}}}
    \cup
    {[Measurement |-> names,
      Node |-> [col \in NodeColumns |-> IF col = "Node_1" THEN pair[1] ELSE pair[2]]] :
        names \in MeasurementColumns(n),
        pair \in [1..n -> CellValues] \X [1..n -> FewCellValues]}
    \cup
    {[Measurement |-> names, Node |-> cols] :
        names \in MeasurementColumns(n),
        cols \in [{"Node_2"} -> [1..n -> FewCellValues]]}

CsvTables == UNION {CsvTablesOf(n) : n \in 1..MaxRows}

DeltaFiles == {"delta_acce_file", "output_file"}

InitDelta ==
    /\ pc = "delta"
    /\ ScanIdle
    /\ PeaksIdle
    /\ ToolsIdle
    /\ current_df \in CsvTables
    /\ baseline_df \in CsvTables
    /\ delta_df = None
    /\ delta_result = "running"
    /\ delta_warnings = {}
    /\ measurement_warnings = {}
    /\ delta = None
    /\ compute_delta_result = "running"
    /\ exit_code = <<>>

(* create_delta_files(...) on the two tables; nothing raises for tables     *)
(* that were read, so it returns True                                      *)
create_delta_files ==
    /\ pc = "delta"
    /\ delta_result = "running"
    /\ delta_df' = create_delta(current_df, baseline_df)
    /\ delta_warnings' = warned(current_df, baseline_df)
    /\ measurement_warnings' =
          IF measurement_mismatch(current_df, baseline_df)
          THEN measurement_warnings \cup {"create_delta_files"}
          ELSE measurement_warnings
    /\ delta_result' = "True"
    /\ UNCHANGED <<line, nlines, pc, csvvars, dbvars, peakvars, toolvars, current_df,
                   baseline_df,
                   delta, compute_delta_result, exit_code>>

(* compute_delta(current_file, baseline_file, output_file) *)
ComputeDelta ==
    /\ pc = "delta"
    /\ compute_delta_result = "running"
    /\ measurement_warnings' =
          IF measurement_mismatch(current_df, baseline_df)
          THEN measurement_warnings \cup {"compute_delta"}
          ELSE measurement_warnings
    /\ IF compute_delta_raises(current_df, baseline_df)
       THEN /\ compute_delta_result' = "KeyError"
            /\ UNCHANGED delta
       ELSE /\ compute_delta_result' = "returned"
            /\ delta' = compute_delta(current_df, baseline_df)
    /\ UNCHANGED <<line, nlines, pc, csvvars, dbvars, peakvars, toolvars, current_df,
                   baseline_df,
                   delta_df, delta_result, delta_warnings, exit_code>>

(* verify_zero(delta_file) on a delta file that has been written *)
VerifyZero(file) ==
    /\ pc = "delta"
    /\ file \notin DOMAIN exit_code
    /\ IF file = "delta_acce_file" THEN delta_result = "True"
       ELSE compute_delta_result = "returned"
    /\ exit_code' = exit_code @@
          (file :> verify_zero(IF file = "delta_acce_file" THEN delta_df ELSE delta))
    /\ UNCHANGED <<line, nlines, pc, csvvars, dbvars, peakvars, toolvars, current_df,
                   baseline_df,
                   delta_df, delta_result, delta_warnings, measurement_warnings, delta,
                   compute_delta_result>>

NextDelta ==
    \/ create_delta_files
    \/ ComputeDelta
    \/ \E file \in DeltaFiles : VerifyZero(file)

SpecDelta == InitDelta /\ [][NextDelta]_vars

----------------------------------------------------------------------------
(* The solver's numeric literals: nastran_float (heeds/database) and       *)
(* float_to_nastran (Scripts/generate_case_bush.py).  A str is the list of *)
(* its characters.  A float is the decimal number m x 10^e, kept with m    *)
(* not divisible by 10 (and 0 as 0 x 10^0), so that two floats are equal   *)
(* when their records are.  The arithmetic is exact: the rounding of       *)
(* binary doubles is not modelled.  Their range is: a literal above it is  *)
(* inf and a literal below it is 0.                                        *)

MaxToken == 5
MaxDigits == 7

DigitValue ==
    ("0" :> 0) @@ ("1" :> 1) @@ ("2" :> 2) @@ ("3" :> 3) @@ ("4" :> 4)
        @@ ("5" :> 5) @@ ("6" :> 6) @@ ("7" :> 7) @@ ("8" :> 8) @@ ("9" :> 9)
DigitChar == <<"0", "1", "2", "3", "4", "5", "6", "7", "8", "9">>

(* \d and [+-] *)
IsDigitChar(c) == c \in DOMAIN DigitValue
IsSignChar(c) == c \in {"+", "-"}

(* the character at position i (1-based), "" past the end *)
char(s, i) == IF i \in 1..Len(s) THEN s[i] ELSE ""

ValueError == [raised |-> "ValueError"]

RECURSIVE Float(_, _)
Float(m, e) ==
    IF m = 0 THEN [m |-> 0, e |-> 0]
    ELSE IF m % 10 = 0 THEN Float(m \div 10, e + 1)
    ELSE [m |-> m, e |-> e]

(* the number of digits from position i on *)
RECURSIVE digits_run(_, _)
digits_run(s, i) == IF IsDigitChar(char(s, i)) THEN 1 + digits_run(s, i + 1) ELSE 0

(* int() of a list of digits; 0 for the empty list *)
RECURSIVE to_int(_)
to_int(s) ==
    IF s = <<>> THEN 0 ELSE 10 * to_int(SubSeq(s, 1, Len(s) - 1)) + DigitValue[s[Len(s)]]

(* str() of an integer n >= 0 *)
RECURSIVE to_str(_)
to_str(n) ==
    IF n < 10 THEN <<DigitChar[n + 1]>>
    ELSE to_str(n \div 10) \o <<DigitChar[(n % 10) + 1]>>

RECURSIVE pow10(_)
pow10(k) == IF k = 0 THEN 1 ELSE 10 * pow10(k - 1)

(* the range of a double: float() gives inf from about 1.8e308 on and 0    *)
(* below about 2.5e-324                                                    *)
MaxFloatExp == 308
MinFloatExp == -324

Inf(sign) == [inf |-> sign]
IsInf(value) == "inf" \in DOMAIN value

(* the double for m x 10^e *)
double(m, e) ==
    LET value == Float(m, e)
        k == value.e + Len(to_str(IF value.m < 0 THEN 0 - value.m ELSE value.m)) - 1
    IN  IF value.m = 0 THEN value
        ELSE IF k > MaxFloatExp THEN Inf(IF m < 0 THEN -1 ELSE 1)
        ELSE IF k < MinFloatExp THEN Float(0, 0)
        ELSE value

(* float(s) of a str without blanks, letters other than e and E, or `_`:   *)
(* [sign] (digits [. [digits]] | . digits) [(e|E) [sign] digits]           *)
float(s) ==
    LET start == IF IsSignChar(char(s, 1)) THEN 2 ELSE 1
        n1 == digits_run(s, start)
        dot == start + n1
        hasdot == char(s, dot) = "."
        n2 == IF hasdot THEN digits_run(s, dot + 1) ELSE 0
        mark == IF hasdot THEN dot + 1 + n2 ELSE dot
        hasexp == char(s, mark) \in {"e", "E"}
        first == IF IsSignChar(char(s, mark + 1)) THEN mark + 2 ELSE mark + 1
        n3 == IF hasexp THEN digits_run(s, first) ELSE 0
        end == IF hasexp THEN first + n3 ELSE mark
        mantissa == to_int(SubSeq(s, start, start + n1 - 1) \o SubSeq(s, dot + 1, dot + n2))
        exponent == to_int(SubSeq(s, first, first + n3 - 1))
    IN  IF n1 + n2 >= 1 /\ (hasexp => n3 >= 1) /\ end = Len(s) + 1
        THEN double(IF char(s, 1) = "-" THEN 0 - mantissa ELSE mantissa,
                    (IF ~hasexp THEN 0
                     ELSE IF char(s, mark + 1) = "-" THEN 0 - exponent ELSE exponent) - n2)
        ELSE ValueError

(* s unchanged: the first re.sub left out *)
sub_dot_sign_skipped(s, i) == SubSeq(s, i, Len(s))

(* re.sub(r'(\d)\.([+-])(\d)', r'\1.E\2\3', s), from position i on *)
RECURSIVE sub_dot_sign(_, _)
sub_dot_sign(s, i) ==
    IF i > Len(s) THEN <<>>
    ELSE IF /\ IsDigitChar(char(s, i))
            /\ char(s, i + 1) = "."
            /\ IsSignChar(char(s, i + 2))
            /\ IsDigitChar(char(s, i + 3))
    THEN <<s[i], ".", "E", s[i + 2], s[i + 3]>> \o sub_dot_sign(s, i + 4)
    ELSE <<s[i]>> \o sub_dot_sign(s, i + 1)

(* re.sub(r'(\d\.\d+)([+-])(\d)', r'\1E\2\3', s), from position i on; \d+  *)
(* takes the whole run of digits, a shorter one is followed by a digit     *)
RECURSIVE sub_decimal_sign(_, _)
sub_decimal_sign(s, i) ==
    IF i > Len(s) THEN <<>>
    ELSE LET n == digits_run(s, i + 2)
         IN  IF /\ IsDigitChar(char(s, i))
                /\ char(s, i + 1) = "."
                /\ n >= 1
                /\ IsSignChar(char(s, i + 2 + n))
                /\ IsDigitChar(char(s, i + 3 + n))
             THEN SubSeq(s, i, i + 1 + n) \o <<"E", s[i + 2 + n], s[i + 3 + n]>>
                     \o sub_decimal_sign(s, i + 4 + n)
             ELSE <<s[i]>> \o sub_decimal_sign(s, i + 1)

(* re.sub(r'(\d)([+-])(\d)', r'\1E\2\3', s), from position i on *)
RECURSIVE sub_digit_sign(_, _)
sub_digit_sign(s, i) ==
    IF i > Len(s) THEN <<>>
    ELSE IF /\ IsDigitChar(char(s, i))
            /\ IsSignChar(char(s, i + 1))
            /\ IsDigitChar(char(s, i + 2))
    THEN <<s[i], "E", s[i + 1], s[i + 2]>> \o sub_digit_sign(s, i + 3)
    ELSE <<s[i]>> \o sub_digit_sign(s, i + 1)

(* s after the three re.sub calls of nastran_float *)
re_sub(s) == sub_digit_sign(sub_decimal_sign(sub_dot_sign(s, 1), 1), 1)

nastran_float(s) == float(re_sub(s))

(* the decimal digits of abs(value), most significant first *)
significand(value) == to_str(IF value.m < 0 THEN 0 - value.m ELSE value.m)

(* exp after the two while loops.  With v = abs(value) = d.ddd x 10^k, the  *)
(* first loop divides v by 10 and adds 1 to exp k times (k >= 1), the      *)
(* second multiplies v by 10 and takes 1 from exp -k times (k < 0)         *)
exp_of(digits, e) == e + Len(digits) - 1

(* s without the zeros at its end *)
RECURSIVE rstrip_zeros(_)
rstrip_zeros(s) ==
    IF s # <<>> /\ s[Len(s)] = "0" THEN rstrip_zeros(SubSeq(s, 1, Len(s) - 1)) ELSE s

(* f"{mantissa:.6g}" of a mantissa in [1, 10) given by its digits: the     *)
(* digits are rounded to 6, to the nearest; `half` says which way an exact *)
(* decimal tie goes, which the binary value of the mantissa decides        *)
format_6g(digits, half) ==
    LET d == Len(digits)
        kept == to_int(SubSeq(digits, 1, 6))
        rest == to_int(SubSeq(digits, 7, d))
        up == \/ 2 * rest > pow10(d - 6)
              \/ 2 * rest = pow10(d - 6) /\ half = "up"
        rounded == IF d <= 6 THEN digits ELSE to_str(IF up THEN kept + 1 ELSE kept)
        point == IF Len(rounded) > 6 /\ d > 6 THEN 2 ELSE 1
        fraction == rstrip_zeros(SubSeq(rounded, point + 1, Len(rounded)))
    IN  SubSeq(rounded, 1, point) \o (IF fraction = <<>> THEN <<>> ELSE <<".">> \o fraction)

(* float_to_nastran(value) *)
float_to_nastran(value, half) ==
    IF value.m = 0 THEN <<"0", ".", "0">>
    ELSE LET digits == significand(value)
             exp == exp_of(digits, value.e)
             sign == IF value.m < 0 THEN <<"-">> ELSE <<>>
             exponent == IF exp >= 0 THEN <<"+">> \o to_str(exp)
                         ELSE <<"-">> \o to_str(0 - exp)
         IN  IF Len(digits) = 1
             THEN sign \o digits \o <<".">> \o exponent
             ELSE sign \o format_6g(digits, half) \o exponent

Characters == {"0", "1", ".", "+", "-", "E", "e"}

(* 1E1111 and 1+1111 are above the range of a double, 1E-1111 is below it *)
OutOfRangeTokens ==
    {<<"1", "E", "1", "1", "1", "1">>, <<"1", "+", "1", "1", "1", "1">>,
     <<"1", "E", "-", "1", "1", "1", "1">>}

(* the strings of at most MaxToken characters, the whole numbers of 6 to   *)
(* MaxDigits digits, and the literals out of range                         *)
Tokens ==
    UNION {[1..n -> Characters] : n \in 0..MaxToken}
        \cup UNION {{<<"1">> \o t : t \in [1..(n - 1) -> {"0", "1"}]} : n \in 6..MaxDigits}
        \cup OutOfRangeTokens

InitLiteral ==
    /\ pc = "literal"
    /\ ScanIdle
    /\ PeaksIdle
    /\ DeltaIdle
    /\ CaseIdle
    /\ BushIdle
    /\ token \in Tokens
    /\ substituted = None
    /\ nastran_result = None
    /\ formatted = None
    /\ reparsed = None

(* the call nastran_float(token) *)
NastranFloat ==
    /\ pc = "literal"
    /\ pc' = "parsed"
    /\ substituted' = re_sub(token)
    /\ nastran_result' = nastran_float(token)
    /\ UNCHANGED <<line, nlines, csvvars, dbvars, peakvars, deltavars, casevars, bushvars,
                   token, formatted,
                   reparsed>>

(* the call float_to_nastran(value) on the value returned; with inf the    *)
(* loop `while v >= 10: v /= 10` does not end                              *)
FloatToNastran ==
    /\ pc = "parsed"
    /\ nastran_result # ValueError
    /\ IF IsInf(nastran_result)
       THEN /\ pc' = "looping"
            /\ UNCHANGED formatted
       ELSE /\ pc' = "formatted"
            /\ \E half \in {"down", "up"} :
                  formatted' = float_to_nastran(nastran_result, half)
    /\ UNCHANGED <<line, nlines, csvvars, dbvars, peakvars, deltavars, casevars, bushvars,
                   token, substituted,
                   nastran_result, reparsed>>

(* the call nastran_float(formatted) *)
NastranFloatAgain ==
    /\ pc = "formatted"
    /\ pc' = "done"
    /\ reparsed' = nastran_float(formatted)
    /\ UNCHANGED <<line, nlines, csvvars, dbvars, peakvars, deltavars, casevars, bushvars,
                   token, substituted,
                   nastran_result, formatted>>

NextLiteral ==
    \/ NastranFloat
    \/ FloatToNastran
    \/ NastranFloatAgain

SpecLiteral == InitLiteral /\ [][NextLiteral]_vars

----------------------------------------------------------------------------
(* The legacy sweep cases of generate_case_bush.py: sweep_case_to_bolt_level *)
(* and bolt_level_to_sweep_case                                            *)

(* how far the arguments tried go beyond 0..72, 2..10 and 1..8 *)
MaxBeyond == 2

(* the values returned: the tuple (bolt_number, level), with Some(n) for a  *)
(* number n and None for None, and the case number                         *)
BoltLevel(bolt, lvl) == [bolt_number |-> bolt, level |-> lvl]
SweepCase(case) == [case_number |-> case]
Returned(value) == DOMAIN value # {} /\ value # ValueError

(* the case mapping that divides case_number itself *)
sweep_case_to_bolt_level_one_indexed(case) ==
    IF case = 0 THEN BoltLevel(None, None)
    ELSE IF case < 1 \/ case > 72 THEN ValueError
    ELSE BoltLevel(Some((case \div 8) + 2), Some((case % 8) + 1))

(* sweep_case_to_bolt_level(case_number) *)
sweep_case_to_bolt_level(case) ==
    IF case = 0 THEN BoltLevel(None, None)
    ELSE IF case < 1 \/ case > 72 THEN ValueError
    ELSE LET zero_indexed == case - 1
             bolt_offset == zero_indexed \div 8
         IN  BoltLevel(Some(bolt_offset + 2), Some((zero_indexed % 8) + 1))

(* bolt_level_to_sweep_case(bolt_number, level) *)
bolt_level_to_sweep_case(bolt, lvl) ==
    IF bolt < 2 \/ bolt > 10 THEN ValueError
    ELSE IF lvl < 1 \/ lvl > 8 THEN ValueError
    ELSE SweepCase((bolt - 2) * 8 + lvl)

CaseNumbers == (0 - MaxBeyond)..(72 + MaxBeyond)
BoltNumbers == (2 - MaxBeyond)..(10 + MaxBeyond)
Levels == (1 - MaxBeyond)..(8 + MaxBeyond)

InitCase ==
    /\ pc = "case"
    /\ ScanIdle
    /\ PeaksIdle
    /\ DeltaIdle
    /\ LiteralIdle
    /\ BushIdle
    /\ case_number \in CaseNumbers
    /\ bolt_number \in BoltNumbers
    /\ level \in Levels
    /\ bolt_level = None
    /\ recovered_case = None
    /\ sweep_case = None
    /\ recovered_bolt_level = None

(* the call sweep_case_to_bolt_level(case_number) *)
SweepCaseToBoltLevel ==
    /\ pc = "case"
    /\ DOMAIN bolt_level = {}
    /\ bolt_level' = sweep_case_to_bolt_level(case_number)
    /\ UNCHANGED <<line, nlines, pc, csvvars, dbvars, peakvars, deltavars, literalvars,
                   bushvars, case_number, recovered_case, bolt_number, level, sweep_case,
                   recovered_bolt_level>>

(* bolt_level_to_sweep_case(bolt, level) of the pair of a case 1..72, as in *)
(* test_roundtrip_all_cases                                                *)
RecoverCase ==
    /\ pc = "case"
    /\ Returned(bolt_level)
    /\ bolt_level # BoltLevel(None, None)
    /\ DOMAIN recovered_case = {}
    /\ recovered_case' =
          bolt_level_to_sweep_case(bolt_level.bolt_number[1], bolt_level.level[1])
    /\ UNCHANGED <<line, nlines, pc, csvvars, dbvars, peakvars, deltavars, literalvars,
                   bushvars, case_number, bolt_level, bolt_number, level, sweep_case,
                   recovered_bolt_level>>

(* the call bolt_level_to_sweep_case(bolt_number, level) *)
BoltLevelToSweepCase ==
    /\ pc = "case"
    /\ DOMAIN sweep_case = {}
    /\ sweep_case' = bolt_level_to_sweep_case(bolt_number, level)
    /\ UNCHANGED <<line, nlines, pc, csvvars, dbvars, peakvars, deltavars, literalvars,
                   bushvars, case_number, bolt_level, recovered_case, bolt_number, level,
                   recovered_bolt_level>>

(* sweep_case_to_bolt_level of the case returned *)
RecoverBoltLevel ==
    /\ pc = "case"
    /\ Returned(sweep_case)
    /\ DOMAIN recovered_bolt_level = {}
    /\ recovered_bolt_level' = sweep_case_to_bolt_level(sweep_case.case_number)
    /\ UNCHANGED <<line, nlines, pc, csvvars, dbvars, peakvars, deltavars, literalvars,
                   bushvars, case_number, bolt_level, recovered_case, bolt_number, level,
                   sweep_case>>

NextCase ==
    \/ SweepCaseToBoltLevel
    \/ RecoverCase
    \/ BoltLevelToSweepCase
    \/ RecoverBoltLevel

SpecCase == InitCase /\ [][NextCase]_vars

----------------------------------------------------------------------------
(* Bush.blk: generate_bush_blk (Scripts/generate_case_bush.py) and         *)
(* generate_bush_blk_content (heeds/scripts/generate_heeds_study.py).  A   *)
(* PBUSH line is its bolt id and its six stiffness fields K1..K6.          *)

(* the bolts 1..MaxBolts may have an entry in the configuration *)
MaxBolts == 3

K_TRANS == <<"1", ".", "+", "6">>
K_DRIVING == <<"1", ".", "+", "8">>
K_HEALTHY == <<"1", ".", "+", "1", "2">>
DRIVING_BOLT == 1

(* STIFFNESS_LEVELS: level -> (nastran notation, value), 1.+4 to 1.+12 *)
STIFFNESS_LEVELS ==
    [lvl \in 1..9 |-> <<<<"1", ".", "+">> \o to_str(lvl + 3), Float(1, lvl + 3)>>]

(* f"PBUSH   {bolt_id}       K       {K_TRANS} ... {k4}    {k5}    {k6}" *)
PBUSH(bolt_id, k4, k5, k6) ==
    [card |-> "PBUSH", bolt_id |-> bolt_id, K |-> <<K_TRANS, K_TRANS, K_TRANS, k4, k5, k6>>]

(* generate_bush_blk: the line written for bolt_id *)
bush_blk_line(config, bolt_id) ==
    IF bolt_id = 1 THEN PBUSH(bolt_id, K_DRIVING, K_HEALTHY, K_HEALTHY)
    ELSE IF bolt_id \in DOMAIN config
    THEN PBUSH(bolt_id, config[bolt_id][1], config[bolt_id][1], config[bolt_id][1])
    ELSE PBUSH(bolt_id, K_HEALTHY, K_HEALTHY, K_HEALTHY)

(* generate_bush_blk(bolt_config, output_file): the lines of the file *)
generate_bush_blk(config) == [bolt_id \in 1..10 |-> bush_blk_line(config, bolt_id)]

(* float_to_nastran of generate_heeds_study.py: the mantissa always goes   *)
(* through f"{mantissa:.6g}"                                               *)
float_to_nastran_heeds(value, half) ==
    IF value.m = 0 THEN <<"0", ".", "0">>
    ELSE LET digits == significand(value)
             exp == exp_of(digits, value.e)
         IN  (IF value.m < 0 THEN <<"-">> ELSE <<>>)
                \o format_6g(digits, half)
                \o (IF exp >= 0 THEN <<"+">> \o to_str(exp) ELSE <<"-">> \o to_str(0 - exp))

(* generate_bush_blk_content: the line appended for bolt_id *)
content_line(stiffnesses, bolt_id, half) ==
    IF bolt_id \in DOMAIN stiffnesses
    THEN PBUSH(bolt_id,
               float_to_nastran_heeds(stiffnesses[bolt_id][1], half),
               float_to_nastran_heeds(stiffnesses[bolt_id][2], half),
               float_to_nastran_heeds(stiffnesses[bolt_id][3], half))
    ELSE IF bolt_id = DRIVING_BOLT THEN PBUSH(bolt_id, K_DRIVING, K_HEALTHY, K_HEALTHY)
    ELSE PBUSH(bolt_id, K_HEALTHY, K_HEALTHY, K_HEALTHY)

(* generate_bush_blk_content(bolt_stiffnesses): the lines of the string *)
generate_bush_blk_content(stiffnesses, half) ==
    [bolt_id \in 1..10 |-> content_line(stiffnesses, bolt_id, half)]

(* the entries tried: level 3 and level 5 of STIFFNESS_LEVELS, and the     *)
(* triples (1e6, 1e6, 1e6) and (1e8, 1e12, 1e12)                           *)
ConfigEntries == {STIFFNESS_LEVELS[3], STIFFNESS_LEVELS[5]}
StiffnessEntries ==
    {<<Float(1, 6), Float(1, 6), Float(1, 6)>>, <<Float(1, 8), Float(1, 12), Float(1, 12)>>}

BoltConfigs == UNION {[S -> ConfigEntries] : S \in SUBSET (1..MaxBolts)}
BoltStiffnesses == UNION {[S -> StiffnessEntries] : S \in SUBSET (1..MaxBolts)}

InitBush ==
    /\ pc = "bush"
    /\ ScanIdle
    /\ PeaksIdle
    /\ DeltaIdle
    /\ LiteralIdle
    /\ CaseIdle
    /\ bolt_config \in BoltConfigs
    /\ bolt_stiffnesses \in BoltStiffnesses
    /\ bush_blk = None
    /\ content = None

(* the call generate_bush_blk(bolt_config, output_file) *)
GenerateBushBlk ==
    /\ pc = "bush"
    /\ bush_blk = None
    /\ bush_blk' = generate_bush_blk(bolt_config)
    /\ UNCHANGED <<line, nlines, pc, csvvars, dbvars, peakvars, deltavars, literalvars,
                   casevars, bolt_config, bolt_stiffnesses, content>>

(* the call generate_bush_blk_content(bolt_stiffnesses) *)
GenerateBushBlkContent ==
    /\ pc = "bush"
    /\ content = None
    /\ \E half \in {"down", "up"} :
          content' = generate_bush_blk_content(bolt_stiffnesses, half)
    /\ UNCHANGED <<line, nlines, pc, csvvars, dbvars, peakvars, deltavars, literalvars,
                   casevars, bolt_config, bolt_stiffnesses, bush_blk>>

NextBush ==
    \/ GenerateBushBlk
    \/ GenerateBushBlkContent

SpecBush == InitBush /\ [][NextBush]_vars

----------------------------------------------------------------------------
(* Vocabulary of the properties *)

(* the step consumed a line and no ValueError left the loop *)
Scanned == nlines' = nlines + 1 /\ pc' = "scan"

IsChannelHeader(l) == startswith(l, "$ACCE") \/ startswith(l, "$DISP")
IsWellFormedHeader(l) == IsChannelHeader(l) /\ Len(l) >= 5
(* a line that is neither blank nor a `$` line *)
IsRow(l) == strip(l) /\ ~startswithDollar(l)
(* a row process_data_blocks takes: at least 4 tokens, the value parses *)
IsValueRow(l) == IsRow(l) /\ Len(l) >= 4 /\ IsFloat(Part(l, 2))

(* the rows appended to channel k carry parseable, pairwise distinct frequencies *)
HasOwnAxis(k) ==
    /\ \A i \in 1..Len(row_frequency[k]) : IsFloat(row_frequency[k][i])
    /\ \A i, j \in 1..Len(row_frequency[k]) :
          row_frequency[k][i] = row_frequency[k][j] => i = j

IsPrefix(s, t) == Len(s) <= Len(t) /\ \A i \in 1..Len(s) : s[i] = t[i]

----------------------------------------------------------------------------
(* C1: in process_data_blocks, with a block open, a non-blank line with    *)
(* fewer than 4 tokens or with a value token that does not parse leaves    *)
(* the block open and appends nothing, and a valid row is then still       *)
(* appended to the open channel; a blank line closes the block, and with   *)
(* no block open a row is appended to no channel.                          *)
C1_SkipKeepsBlockBlankClosesIt ==
    [][Scanned =>
        /\ (/\ current_header # None
            /\ strip(line')
            /\ ~IsWellFormedHeader(line')
            /\ (Len(line') < 4 \/ ~IsFloat(Part(line', 2))))
           => (current_header' = current_header /\ data_dict' = data_dict)
        /\ (current_header # None /\ IsValueRow(line'))
           => /\ current_header' = current_header
              /\ data_dict' = [data_dict EXCEPT ![current_header] =
                                  Append(@, FloatValue[Part(line', 2)])]
        /\ ~strip(line') => current_header' = None
        /\ (current_header = None /\ IsRow(line')) => data_dict' = data_dict
      ]_vars

(* header, a row whose value does not parse (its frequency 2 reaches the   *)
(* axis, nothing reaches the channel), then a valid row, appended          *)
C1_Witness ==
    /\ pc = "scan"
    /\ nlines = 3
    /\ IsValueRow(line)
    /\ current_header # None
    /\ total_psd_columns = 1
    /\ Len(data_dict[current_header]) = 1
    /\ Len(Frequency) = 2

----------------------------------------------------------------------------
(* C2: a line that begins with `$` and is no `$ACCE`/`$DISP` header closes *)
(* the block: the row that follows it adds no value to a channel and no    *)
(* frequency to the axis.                                                  *)
C2_OtherDollarLineClosesBlock ==
    [][(Scanned /\ line \in OtherDollarLines /\ IsRow(line'))
          => (data_dict' = data_dict /\ Frequency' = Frequency)]_vars

----------------------------------------------------------------------------
(* C3: a `$ACCE`/`$DISP` header with fewer than 5 tokens creates no        *)
(* channel and no node column, and the row that follows it is appended to  *)
(* no channel.                                                             *)
C3_ShortHeaderOpensNoBlock ==
    [][Scanned =>
        /\ (IsChannelHeader(line') /\ Len(line') < 5)
           => (DOMAIN data_dict' = DOMAIN data_dict /\ node_ids' = node_ids)
        /\ (IsChannelHeader(line) /\ Len(line) < 5 /\ IsRow(line'))
           => data_dict' = data_dict
      ]_vars

----------------------------------------------------------------------------
(* C4: a well-formed header that repeats a key already in data_dict makes  *)
(* that series the open one and leaves every stored value in place; the    *)
(* rows of the later block are appended after them; no step removes or     *)
(* replaces a stored value, and there is one series per key.               *)
C4_RepeatedKeyAppends ==
    [][/\ \A k \in DOMAIN data_dict :
              k \in DOMAIN data_dict' /\ IsPrefix(data_dict[k], data_dict'[k])
       /\ (Scanned /\ IsWellFormedHeader(line')
             /\ current_header' \in DOMAIN data_dict)
           => (data_dict' = data_dict /\ total_psd_columns' = total_psd_columns)
       /\ (Scanned /\ current_header # None /\ IsValueRow(line'))
           => data_dict'[current_header] =
                 Append(data_dict[current_header], FloatValue[Part(line', 2)])
       /\ total_psd_columns' = Cardinality(DOMAIN data_dict')
      ]_vars

(* the header of a key that already holds values has just been consumed *)
C4_Witness ==
    /\ pc = "scan"
    /\ IsWellFormedHeader(line)
    /\ current_header # None
    /\ data_dict[current_header] # <<>>
    /\ acce_count + disp_count = 2
    /\ total_psd_columns = 1

----------------------------------------------------------------------------
(* C5: in parse_pch_file, when a block with a well-formed header and at    *)
(* least one accepted row is ended by a `$` line or by the end of the      *)
(* input, it is stored under its key, for every integer node id.           *)
C5_EveryBlockIsFlushed ==
    [][(/\ pc = "scan"
        /\ result' # "raised"
        /\ current_type # None /\ current_node # None /\ current_dof # None
        /\ current_data # <<>>
        /\ (pc' = "done" \/ (nlines' = nlines + 1 /\ startswithDollar(line'))))
          => /\ current_key \in DOMAIN data'
             /\ data'[current_key] = current_data
      ]_vars

----------------------------------------------------------------------------
(* C6: when the input holds a well-formed block, a channel header whose    *)
(* DOF token is not an integer is skipped and the table of the channels    *)
(* recovered before it is still emitted.                                   *)
C6_MalformedHeaderIsSkipped ==
    (/\ pc = "done"
     /\ channel_header_raises(line)
     /\ \E k \in DOMAIN data_dict : data_dict[k] # <<>>
     /\ \A k \in DOMAIN data_dict : HasOwnAxis(k))
       => (result = "True" /\ written = OutputFiles)

----------------------------------------------------------------------------
(* C7: an input that yields zero channels or zero frequencies makes        *)
(* create_combined_data return False and write no table.                   *)
C7_EmptyInputFails ==
    (pc = "done" /\ (DOMAIN data_dict = {} \/ Frequency = <<>>))
       => (result = "False" /\ written = {})

----------------------------------------------------------------------------
(* C8: when a table is built, the frequency axis is strictly increasing    *)
(* and holds exactly the frequencies of the rows appended to a channel.    *)
AcceptedFrequencies ==
    {FloatValue[f] : f \in {t \in UNION {Range(row_frequency[k]) :
                                           k \in DOMAIN row_frequency} : IsFloat(t)}}

StrictlyIncreasing(s) == \A i \in 1..(Len(s) - 1) : s[i] < s[i + 1]

C8_AxisIsExactlyTheChannelFrequencies ==
    (pc = "done" /\ result = "True" /\ \E k \in DOMAIN data_dict : data_dict[k] # <<>>)
       => (StrictlyIncreasing(Frequency) /\ Range(Frequency) = AcceptedFrequencies)

----------------------------------------------------------------------------
(* C9: when some channel has a number of samples different from the length *)
(* of the axis, create_combined_data returns False and writes no table; a  *)
(* table is only built from channels that fill the axis.                   *)
C9_LengthMismatchFails ==
    /\ (pc = "done" /\ \E k \in DOMAIN data_dict : Len(data_dict[k]) # Len(Frequency))
          => (result = "False" /\ written = {} /\ acce_df_transposed = <<>>
                /\ disp_df_transposed = <<>>)
    /\ result = "True"
          => \A k \in DOMAIN data_dict : Len(data_dict[k]) = Len(Frequency)

(* the file was read to its end and a channel with samples misses the axis length *)
C9_Witness ==
    /\ pc = "done"
    /\ ~channel_header_raises(line)
    /\ Frequency # <<>>
    /\ \E k \in DOMAIN data_dict :
          data_dict[k] # <<>> /\ Len(data_dict[k]) # Len(Frequency)
    /\ result = "False"

----------------------------------------------------------------------------
(* C10: the Area of a channel is the trapezoidal integral of the channel's *)
(* own samples taken in ascending frequency order (areas doubled, in      *)
(* hundredths).                                                            *)
OwnFrequencies(k) == [i \in 1..Len(row_frequency[k]) |-> FloatValue[row_frequency[k][i]]]

(* the values of channel k in the order of their own frequencies *)
OwnValuesByFrequency(k) ==
    LET fs == sorted(OwnFrequencies(k))
    IN  [i \in 1..Len(fs) |->
            data_dict[k][CHOOSE j \in 1..Len(fs) : OwnFrequencies(k)[j] = fs[i]]]

Table(kind) == IF kind = "ACCE" THEN acce_df_transposed ELSE disp_df_transposed

(* the cell of the row `name` in the column of node n *)
Cell(kind, n, name) ==
    Table(kind).Node[n][CHOOSE r \in 1..Len(Table(kind).Measurement) :
                            Table(kind).Measurement[r] = name]

C10_AreaOfOwnSamples ==
    (pc = "done" /\ result = "True")
       => \A k \in DOMAIN data_dict :
             (k[3] \in Range(dof_types) /\ HasOwnAxis(k))
                => Cell(k[1], k[2], <<k[1], k[3], "Area">>) =
                      Num(trapz2(OwnValuesByFrequency(k), sorted(OwnFrequencies(k))))

----------------------------------------------------------------------------
(* C11: for the file of one `$ACCE` block of node 222 with DOF code 3 and   *)
(* the rows (1.0, 0.5), (2.0, 1.5), (3.0, 0.2), the column Node_222 of the *)
(* acceleration table has ACCE_T1_Area 1.85, the trapezoidal integral of   *)
(* the three samples, and ACCE_T1_Frequency_1..3 / ACCE_T1_PSD_1..3 are    *)
(* the three samples in frequency order.  (Values in tenths; areas         *)
(* doubled, in hundredths: 1.85 is 370 and 1.95 is 390.)                   *)
Node222Example ==
    /\ pc = "done"
    /\ nlines = 4
    /\ acce_count = 1
    /\ disp_count = 0
    /\ DOMAIN data_dict = {<<"ACCE", "222", "T1">>}
    /\ row_frequency[<<"ACCE", "222", "T1">>] = <<"1.0", "2.0", "3.0">>
    /\ data_dict[<<"ACCE", "222", "T1">>] = <<5, 15, 2>>

Node222Peaks ==
    /\ Cell("ACCE", "222", <<"ACCE", "T1", "Frequency_1">>) = Num(10)
    /\ Cell("ACCE", "222", <<"ACCE", "T1", "PSD_1">>) = Num(5)
    /\ Cell("ACCE", "222", <<"ACCE", "T1", "Frequency_2">>) = Num(20)
    /\ Cell("ACCE", "222", <<"ACCE", "T1", "PSD_2">>) = Num(15)
    /\ Cell("ACCE", "222", <<"ACCE", "T1", "Frequency_3">>) = Num(30)
    /\ Cell("ACCE", "222", <<"ACCE", "T1", "PSD_3">>) = Num(2)

C11_ExampleAreaIs185 ==
    Node222Example
       => /\ result = "True"
          /\ acce_df_transposed.columns = <<"222">>
          /\ Cell("ACCE", "222", <<"ACCE", "T1", "Area">>) = Num(370)
          /\ Node222Peaks

(* the claim as stated: the Area of the example is 1.95 *)
C11_ExampleAreaIs195 ==
    Node222Example
       => /\ result = "True"
          /\ acce_df_transposed.columns = <<"222">>
          /\ Cell("ACCE", "222", <<"ACCE", "T1", "Area">>) = Num(390)
          /\ Node222Peaks

(* the example file has been read to its end and its tables are written *)
C11_Witness ==
    /\ Node222Example
    /\ written = OutputFiles
    /\ Cell("ACCE", "222", <<"ACCE", "T1", "Area">>) # NaN

----------------------------------------------------------------------------
(* Vocabulary of the properties of find_top_three_local_maxima *)

(* find_top_three_local_maxima has returned *)
PeaksFound == pc = "done" /\ inflection_points # None

(* the (frequency, value) samples of the frame *)
Samples ==
    {<<temp_df.Frequency[i], temp_df.values[i]>> : i \in 1..Len(temp_df.values)}

(* the samples flagged by the scan of the smoothed series *)
LocalMaxima == {<<temp_df.Frequency[i], temp_df.values[i]>> : i \in is_local_maxima}

Populated(rank) ==
    /\ inflection_points[Frequency_key[rank]] # NaN
    /\ inflection_points[PSD_key[rank]] # NaN

Missing(rank) ==
    /\ inflection_points[Frequency_key[rank]] = NaN
    /\ inflection_points[PSD_key[rank]] = NaN

(* the sample in slot `rank`, for a populated slot *)
Slot(rank) ==
    <<inflection_points[Frequency_key[rank]].num, inflection_points[PSD_key[rank]].num>>

Reported == {Slot(rank) : rank \in {r \in 1..3 : Populated(r)}}

----------------------------------------------------------------------------
(* C12: when the scan of the smoothed series flags no strict interior      *)
(* local maximum, the candidates are 3 distinct samples of the series      *)
(* (all the samples of a series shorter than 3) and no other sample has a  *)
(* larger raw value than a candidate; they are the peaks reported, so a    *)
(* series of 3 samples or more has its 3 slots populated.                  *)
C12_NoLocalMaximumGivesTopThree ==
    (PeaksFound /\ is_local_maxima = {})
       => /\ Range(local_maximas) \subseteq Samples
          /\ Cardinality(Range(local_maximas)) = Len(local_maximas)
          /\ Len(local_maximas) = IF Len(temp_df.values) < 3 THEN Len(temp_df.values) ELSE 3
          /\ \A s \in Samples \ Range(local_maximas) :
                \A c \in Range(local_maximas) : s[2] <= c[2]
          /\ Reported = Range(local_maximas)
          /\ Len(temp_df.values) >= 3 => \A rank \in 1..3 : Populated(rank)

(* a series of 10 samples or more whose raw values have a strict local     *)
(* maximum that the smoothing flattens, with a sample left unreported      *)
(* below the peaks                                                         *)
C12_Witness ==
    /\ PeaksFound
    /\ is_local_maxima = {}
    /\ Len(temp_df.values) >= 10
    /\ strict_local_maxima(temp_df.values) # {}
    /\ \E s \in Samples \ Reported : \E c \in Reported : s[2] < c[2]

----------------------------------------------------------------------------
(* C13: when the scan flags 1 or 2 local maxima, the candidates are those  *)
(* maxima followed by non-maximum samples taken in descending raw-value    *)
(* order until there are 3; no sample left out has a larger raw value      *)
(* than a filled one, and the candidates are the peaks reported.           *)
Filled == SubSeq(local_maximas, Cardinality(is_local_maxima) + 1, Len(local_maximas))

C13_FillTakesHighestNonMaxima ==
    (PeaksFound /\ Cardinality(is_local_maxima) \in {1, 2})
       => /\ Len(local_maximas) = 3
          /\ Range(SubSeq(local_maximas, 1, Cardinality(is_local_maxima))) = LocalMaxima
          /\ Range(Filled) \subseteq Samples \ LocalMaxima
          /\ Cardinality(Range(Filled)) = Len(Filled)
          /\ \A i, j \in 1..Len(Filled) : i < j => Filled[i][2] >= Filled[j][2]
          /\ \A s \in Samples \ Range(local_maximas) :
                \A i \in 1..Len(Filled) : s[2] <= Filled[i][2]
          /\ Reported = Range(local_maximas)

(* one local maximum in a smoothed series, two slots filled with samples   *)
(* of different values, and a sample left out                              *)
C13_Witness ==
    /\ PeaksFound
    /\ Cardinality(is_local_maxima) = 1
    /\ Len(temp_df.values) >= 10
    /\ Len(local_maximas) = 3
    /\ local_maximas[2][2] > local_maximas[3][2]
    /\ Samples \ Reported # {}

----------------------------------------------------------------------------
(* C14: find_top_three_local_maxima returns exactly the three slots        *)
(* Frequency_1..3 / PSD_1..3; the populated slots are samples of the       *)
(* series in strictly ascending frequency order (so no sample is           *)
(* repeated), and slot r is the missing marker NaN exactly when the        *)
(* series has fewer than r samples.                                        *)
C14_ThreeSlotsAscendingNoRepeat ==
    PeaksFound
       => /\ DOMAIN inflection_points = Range(Frequency_key) \cup Range(PSD_key)
          /\ \A rank \in 1..3 :
                /\ Populated(rank) \/ Missing(rank)
                /\ Missing(rank) <=> Len(temp_df.values) < rank
                /\ Populated(rank) => Slot(rank) \in Samples
          /\ \A r1, r2 \in 1..3 :
                (r1 < r2 /\ Populated(r1) /\ Populated(r2)) => Slot(r1)[1] < Slot(r2)[1]

(* a series of two samples: two slots populated, the third missing *)
C14_Witness ==
    /\ PeaksFound
    /\ Len(temp_df.values) = 2
    /\ Populated(1)
    /\ Populated(2)
    /\ Missing(3)

----------------------------------------------------------------------------
(* C15: for a series that rises strictly to one interior maximum and then  *)
(* falls strictly, the interior maximum is in one of the three slots,      *)
(* which are all populated and in ascending frequency order, and no        *)
(* sample left out has a larger raw value than a reported one.             *)
IsBumpAt(top) ==
    /\ \A i \in 1..(top - 1) : temp_df.values[i] < temp_df.values[i + 1]
    /\ \A i \in top..(Len(temp_df.values) - 1) : temp_df.values[i] > temp_df.values[i + 1]

InteriorMaximum ==
    CHOOSE top \in 2..(Len(temp_df.values) - 1) : IsBumpAt(top)

IsBump == \E top \in 2..(Len(temp_df.values) - 1) : IsBumpAt(top)

C15_BumpMaximumIsReported ==
    (PeaksFound /\ IsBump)
       => /\ <<temp_df.Frequency[InteriorMaximum], temp_df.values[InteriorMaximum]>>
                \in Reported
          /\ \A rank \in 1..3 : Populated(rank)
          /\ Slot(1)[1] < Slot(2)[1]
          /\ Slot(2)[1] < Slot(3)[1]
          /\ \A s \in Samples \ Reported : \A c \in Reported : s[2] <= c[2]

(* the claim as stated: the interior maximum is Frequency_1 / PSD_1 *)
C15_BumpMaximumIsFirst ==
    (PeaksFound /\ IsBump)
       => /\ Populated(1)
          /\ Slot(1) = <<temp_df.Frequency[InteriorMaximum], temp_df.values[InteriorMaximum]>>
          /\ \A rank \in 2..3 :
                \/ Missing(rank)
                \/ /\ Populated(rank)
                   /\ \A s \in Samples \ Reported : s[2] <= Slot(rank)[2]

(* a bump of 10 samples or more whose maximum the smoothed scan flags one  *)
(* sample late, reported in the second slot                                *)
C15_Witness ==
    /\ PeaksFound
    /\ IsBump
    /\ Len(temp_df.values) >= 10
    /\ is_local_maxima = {InteriorMaximum + 1}
    /\ Slot(2) = <<temp_df.Frequency[InteriorMaximum], temp_df.values[InteriorMaximum]>>

----------------------------------------------------------------------------
(* Vocabulary of the properties of the tables *)

TablesBuilt == pc = "done" /\ result = "True"

Kinds == {"ACCE", "DISP"}
Metrics == {"Area"} \cup Range(Frequency_key) \cup Range(PSD_key)

(* the name of the row of (kind, dof, metric): ACCE_{dof}_{metric}, and     *)
(* DISP_{dof}_{metric} with DISP_i for PSD_i                               *)
RowName(kind, dof, m) ==
    IF kind = "ACCE" THEN <<"ACCE", dof, m>>
    ELSE IF m \in Range(PSD_key)
    THEN <<"DISP", dof, DISP_key[CHOOSE i \in 1..3 : PSD_key[i] = m]>>
    ELSE <<"DISP", dof, m>>

----------------------------------------------------------------------------
(* C16: in every node column, the 7 rows of a (response kind, DOF) whose   *)
(* channel is absent from the input hold 0 when it is an acceleration on   *)
(* R1, R2 or R3 and the missing marker NaN otherwise; the 7 rows of a      *)
(* channel that is present hold its area and its peaks.                    *)
C16_MissingChannelPolicy ==
    TablesBuilt
       => \A kind \in Kinds : \A n \in node_ids : \A dof \in Range(dof_types) :
             IF <<kind, n, dof>> \in DOMAIN data_dict
             THEN /\ Cell(kind, n, RowName(kind, dof, "Area")) =
                        Num(trapz2(data_dict[<<kind, n, dof>>], Frequency))
                  /\ \E ties \in NumpyTies :
                        \A m \in Metrics \ {"Area"} :
                           Cell(kind, n, RowName(kind, dof, m)) =
                              find_top_three_local_maxima(Frequency,
                                  data_dict[<<kind, n, dof>>], ties)[m]
                  /\ Cell(kind, n, RowName(kind, dof, "Frequency_1")) # NaN
             ELSE \A m \in Metrics :
                     Cell(kind, n, RowName(kind, dof, m)) =
                        IF kind = "ACCE" /\ dof \in {"R1", "R2", "R3"} THEN Num(0) ELSE NaN

(* a node with an acceleration channel on R1 of non-zero area, and no      *)
(* other channel: R2 is 0, T1 and the displacements are missing            *)
C16_Witness ==
    /\ TablesBuilt
    /\ \E n \in node_ids :
          /\ <<"ACCE", n, "R1">> \in DOMAIN data_dict
          /\ Cell("ACCE", n, <<"ACCE", "R1", "Area">>) \notin {Num(0), NaN}
          /\ Cell("ACCE", n, <<"ACCE", "R2", "PSD_3">>) = Num(0)
          /\ Cell("ACCE", n, <<"ACCE", "T1", "Area">>) = NaN
          /\ Cell("DISP", n, <<"DISP", "R1", "DISP_1">>) = NaN

----------------------------------------------------------------------------
(* C17: the Node_{id} columns of both tables are in ascending numeric      *)
(* node-id order with the non-numeric ids after the numeric ones, and the  *)
(* order is the same whatever order the set of node ids is iterated in.    *)
C17_ColumnOrderIsAFunctionOfTheNodeIds ==
    TablesBuilt
       => /\ disp_df_transposed.columns = acce_df_transposed.columns
          /\ Range(acce_df_transposed.columns) = node_ids
          /\ Len(acce_df_transposed.columns) = Cardinality(node_ids)
          /\ \A i, j \in 1..Len(acce_df_transposed.columns) :
                i < j => /\ isdigit(acce_df_transposed.columns[j])
                               => isdigit(acce_df_transposed.columns[i])
                         /\ (isdigit(acce_df_transposed.columns[i])
                               /\ isdigit(acce_df_transposed.columns[j]))
                               => IntValue[acce_df_transposed.columns[i]]
                                     < IntValue[acce_df_transposed.columns[j]]
          /\ \A iteration \in Iterations(node_ids) :
                sorted_node_ids(iteration) = acce_df_transposed.columns

----------------------------------------------------------------------------
(* C18: whenever tables are built, the Measurement column of each table is *)
(* the fixed list of the response kind, whatever the input; the list has   *)
(* 42 rows, one for each of the 6 DOFs and 7 metrics.                      *)
SchemaOf(kind, table) ==
    /\ table.Measurement = measurements(kind)
    /\ \A dof \in Range(dof_types) : \A m \in Metrics :
          Cardinality({r \in 1..Len(table.Measurement) :
                          table.Measurement[r] = RowName(kind, dof, m)}) = 1
    /\ \A n \in node_ids : Len(table.Node[n]) = Len(table.Measurement)

C18_MeasurementColumnIsTheSchema ==
    TablesBuilt
       => /\ SchemaOf("ACCE", acce_df_transposed)
          /\ SchemaOf("DISP", disp_df_transposed)
          /\ Len(acce_df_transposed.Measurement) = 42
          /\ Len(disp_df_transposed.Measurement) = 42

(* the claim as stated: 84 rows per response kind *)
C18_MeasurementColumnHas84Rows ==
    TablesBuilt
       => /\ SchemaOf("ACCE", acce_df_transposed)
          /\ SchemaOf("DISP", disp_df_transposed)
          /\ Len(acce_df_transposed.Measurement) = 84
          /\ Len(disp_df_transposed.Measurement) = 84

(* tables built from a file with a displacement block before an            *)
(* acceleration block of another node                                      *)
C18_Witness ==
    /\ TablesBuilt
    /\ written = OutputFiles
    /\ Cardinality(node_ids) = 2
    /\ \E k \in DOMAIN data_dict : k[1] = "DISP"
    /\ current_header # None
    /\ current_header[1] = "ACCE"

----------------------------------------------------------------------------
(* Vocabulary of the properties of the delta *)

(* the columns the two tables share *)
SharedColumns == node_cols(current_df) \cap node_cols(baseline_df)

(* every cell of table df that stands in a shared column and has a number  *)
(* on both sides is baseline minus current, 0 when under 1e-6 in absolute  *)
(* value and the signed difference otherwise                               *)
IsDeadbandedDifference(df) ==
    \A col \in SharedColumns : \A r \in 1..Len(df.Node[col]) :
       (at(baseline_df.Node[col], r) # NaN /\ at(current_df.Node[col], r) # NaN)
          => df.Node[col][r] =
                IF abs(baseline_df.Node[col][r].num - current_df.Node[col][r].num)
                      < deadband_width
                THEN Num(0)
                ELSE Num(baseline_df.Node[col][r].num - current_df.Node[col][r].num)

AllZero(df) ==
    \A col \in node_cols(df) : \A r \in 1..Len(df.Node[col]) : df.Node[col][r] = Num(0)

----------------------------------------------------------------------------
(* C19: in the delta of create_delta_files and of compute_delta, each cell *)
(* of a column present in both tables is baseline minus current, replaced  *)
(* by 0 when its absolute value is strictly below 1e-6 and kept with its   *)
(* sign otherwise; the delta of a table with itself is 0 in every cell.    *)
C19_DeltaIsDeadbandedAndZeroOnItself ==
    /\ delta_result = "True"
          => /\ IsDeadbandedDifference(delta_df)
             /\ current_df = baseline_df => AllZero(delta_df)
    /\ compute_delta_result = "returned"
          => /\ IsDeadbandedDifference(delta)
             /\ current_df = baseline_df => AllZero(delta)

----------------------------------------------------------------------------
(* C20: when a node column of the current table is absent from the         *)
(* baseline table, create_delta_files and compute_delta both end without   *)
(* failing, warn about the column, leave it equal to the current values    *)
(* in the delta, and compute the delta of every shared column.             *)
C20_ColumnAbsentFromBaselineIsKept ==
    (node_cols(current_df) \ node_cols(baseline_df) # {})
       => /\ delta_result # "running"
             => /\ delta_result = "True"
                /\ delta_warnings = node_cols(current_df) \ node_cols(baseline_df)
                /\ \A col \in node_cols(current_df) \ node_cols(baseline_df) :
                      delta_df.Node[col] = current_df.Node[col]
                /\ \A col \in SharedColumns : \A r \in 1..Len(current_df.Node[col]) :
                      delta_df.Node[col][r] =
                         deadband(subtract_fill_value_0(at(baseline_df.Node[col], r),
                                                        current_df.Node[col][r]))
          /\ compute_delta_result # "running"
             => /\ compute_delta_result = "returned"
                /\ \A col \in node_cols(current_df) \ node_cols(baseline_df) :
                      delta.Node[col] = current_df.Node[col]

----------------------------------------------------------------------------
(* the row of table df that carries the measurement name *)
RowOf(df, name) == CHOOSE r \in 1..Len(df.Measurement) : df.Measurement[r] = name

(* every row of the delta table df carries a measurement name that both    *)
(* tables have, and its cells in the shared columns are the difference of  *)
(* the two cells found under that name                                     *)
RowsAreMatchedByName(df) ==
    \A r \in 1..Len(df.Measurement) :
       /\ df.Measurement[r] \in Range(current_df.Measurement)
                                   \cap Range(baseline_df.Measurement)
       /\ \A col \in SharedColumns :
             LET b == baseline_df.Node[col][RowOf(baseline_df, df.Measurement[r])]
                 c == current_df.Node[col][RowOf(current_df, df.Measurement[r])]
             IN  (b # NaN /\ c # NaN) => df.Node[col][r] = deadband(minus(b, c))

(* C21: when the Measurement columns of the current and the baseline       *)
(* table differ, create_delta_files and compute_delta warn and go on, and  *)
(* every delta cell they write is computed between the two rows that carry *)
(* the same measurement name (the rows the tables share), never between    *)
(* two different measurements at the same row position.                    *)
C21_MismatchedMeasurementsAreMatchedByName ==
    measurement_mismatch(current_df, baseline_df)
       => /\ delta_result = "True"
             => /\ "create_delta_files" \in measurement_warnings
                /\ RowsAreMatchedByName(delta_df)
          /\ compute_delta_result = "returned"
             => /\ "compute_delta" \in measurement_warnings
                /\ RowsAreMatchedByName(delta)

----------------------------------------------------------------------------
(* the value of a solver numeric literal, in tenths: the tokens float()    *)
(* takes, and the compact exponent tokens                                  *)
SolverLiteralValue == FloatValue @@ ("1.+1" :> 100) @@ ("5.-1" :> 5)
IsSolverLiteral(tok) == tok \in DOMAIN SolverLiteralValue

(* C22: a data row inside a channel block whose frequency or value token   *)
(* is in the compact exponent form (1.+1, 5.-1) is taken by the channel    *)
(* parser: its value is appended to the open channel and its frequency is  *)
(* on the axis afterwards; the row is not skipped as unparseable.          *)
C22_CompactExponentRowIsTaken ==
    [][(/\ Scanned
        /\ current_header # None
        /\ within_data_block
        /\ IsRow(line')
        /\ Len(line') >= 4
        /\ IsSolverLiteral(Part(line', 1))
        /\ IsSolverLiteral(Part(line', 2)))
       => /\ data_dict' = [data_dict EXCEPT ![current_header] =
                              Append(@, SolverLiteralValue[Part(line', 2)])]
          /\ SolverLiteralValue[Part(line', 1)] \in Range(Frequency')
      ]_vars

----------------------------------------------------------------------------
(* Vocabulary of the properties of the numeric literals *)

HasExponentMarker(s) == \E i \in 1..Len(s) : s[i] \in {"e", "E"}
HasDigit(s) == \E i \in 1..Len(s) : IsDigitChar(s[i])

(* an ordinary decimal literal: float() takes it and it has no e or E *)
IsDecimal(s) == ~HasExponentMarker(s) /\ float(s) # ValueError

(* s is in the compact exponent form with its exponent sign at position k: *)
(* a decimal mantissa, the sign, and the digits of the exponent            *)
IsCompactAt(s, k) ==
    /\ k \in 2..(Len(s) - 1)
    /\ IsSignChar(s[k])
    /\ IsDecimal(SubSeq(s, 1, k - 1))
    /\ \A i \in (k + 1)..Len(s) : IsDigitChar(s[i])

IsCompact(s) == \E k \in 1..Len(s) : IsCompactAt(s, k)

(* mantissa x 10^exponent of a compact token *)
CompactValue(s, k) ==
    LET mantissa == float(SubSeq(s, 1, k - 1))
        exponent == to_int(SubSeq(s, k + 1, Len(s)))
    IN  double(mantissa.m, mantissa.e + (IF s[k] = "-" THEN 0 - exponent ELSE exponent))

Parsed == pc \in {"parsed", "formatted", "looping", "done"} /\ token # None

----------------------------------------------------------------------------
(* C24: parsing and formatting round-trip: for every literal token t that  *)
(* nastran_float takes, nastran_float(float_to_nastran(nastran_float(t)))  *)
(* equals nastran_float(t), and a value whose mantissa is a whole number   *)
(* is formatted with a dot before the exponent sign (1e8 as 1.+8).         *)
C24_ParseFormatRoundTrips ==
    /\ pc = "done" => reparsed = nastran_result
    /\ (pc \in {"formatted", "done"} /\ nastran_result.m \in 1..9)
          => formatted = <<DigitChar[nastran_result.m + 1], ".">>
                            \o (IF nastran_result.e >= 0
                                THEN <<"+">> \o to_str(nastran_result.e)
                                ELSE <<"-">> \o to_str(0 - nastran_result.e))

----------------------------------------------------------------------------
(* C25: sweep_case_to_bolt_level and bolt_level_to_sweep_case are inverse  *)
(* bijections between the cases 1..72 and the pairs (bolt 2..10, level     *)
(* 1..8), bolt-major: case = 8 x (bolt - 2) + level, so case 1 is (2, 1),  *)
(* case 8 is (2, 8), case 9 is (3, 1) and case 72 is (10, 8); case 0 gives *)
(* (None, None); a case outside 0..72, a bolt outside 2..10 or a level     *)
(* outside 1..8 raises ValueError.                                         *)
C25_CaseMappingIsABijection ==
    /\ DOMAIN bolt_level # {}
          => /\ case_number = 0 => bolt_level = BoltLevel(None, None)
             /\ case_number \notin 0..72 => bolt_level = ValueError
             /\ case_number \in 1..72
                   => /\ Returned(bolt_level)
                      /\ bolt_level.bolt_number[1] \in 2..10
                      /\ bolt_level.level[1] \in 1..8
                      /\ 8 * (bolt_level.bolt_number[1] - 2) + bolt_level.level[1]
                            = case_number
             /\ case_number = 1 => bolt_level = BoltLevel(Some(2), Some(1))
             /\ case_number = 8 => bolt_level = BoltLevel(Some(2), Some(8))
             /\ case_number = 9 => bolt_level = BoltLevel(Some(3), Some(1))
             /\ case_number = 72 => bolt_level = BoltLevel(Some(10), Some(8))
    /\ DOMAIN recovered_case # {} => recovered_case = SweepCase(case_number)
    /\ DOMAIN sweep_case # {}
          => IF bolt_number \in 2..10 /\ level \in 1..8
             THEN Returned(sweep_case) /\ sweep_case.case_number \in 1..72
             ELSE sweep_case = ValueError
    /\ DOMAIN recovered_bolt_level # {}
          => recovered_bolt_level = BoltLevel(Some(bolt_number), Some(level))

(* case 9 mapped to bolt 3 level 1 and back, bolt 10 level 8 mapped to     *)
(* case 72 and back                                                        *)
C25_Witness ==
    /\ case_number = 9
    /\ bolt_level = BoltLevel(Some(3), Some(1))
    /\ recovered_case = SweepCase(9)
    /\ bolt_number = 10
    /\ level = 8
    /\ sweep_case = SweepCase(72)
    /\ recovered_bolt_level = BoltLevel(Some(10), Some(8))

----------------------------------------------------------------------------
(* the lines are 10 PBUSH lines for the bolts 1..10 in order, and          *)
(* the line of bolt 1 has K4 = 1.+8 and K5 = K6 = 1.+12                    *)
TenLinesDrivingBoltFixed(lines) ==
    /\ Len(lines) = 10
    /\ \A i \in 1..Len(lines) : lines[i].card = "PBUSH" /\ lines[i].bolt_id = i
    /\ lines[1].K[4] = K_DRIVING
    /\ lines[1].K[5] = K_HEALTHY
    /\ lines[1].K[6] = K_HEALTHY

(* C26: for every bolt configuration, one with an entry for bolt 1         *)
(* included, the output of generate_bush_blk and of                        *)
(* generate_bush_blk_content has exactly 10 PBUSH lines for the bolts      *)
(* 1..10 in order, and the line of bolt 1 carries K4 = 1.+8 and            *)
(* K5 = K6 = 1.+12.                                                        *)
C26_DrivingBoltIsAlwaysFixed ==
    /\ bush_blk # None => TenLinesDrivingBoltFixed(bush_blk)
    /\ content # None => TenLinesDrivingBoltFixed(content)

----------------------------------------------------------------------------
(* the line just read is a data row for process_data_blocks: it reaches    *)
(* data_dict[current_header].append(psd)                                   *)
TakenByProcessDataBlocks ==
    /\ ~IsChannelHeader(line')
    /\ strip(line')
    /\ current_header # None
    /\ Len(line') >= 4
    /\ IsFloat(Part(line', 2))

(* the line just read is a data row for extract_frequency: it reaches      *)
(* `if frequency not in data_dict['Frequency']`                            *)
TakenByExtractFrequency ==
    /\ ~IsChannelHeader(line')
    /\ within_data_block
    /\ strip(line')
    /\ Len(line') >= 4
    /\ IsFloat(Part(line', 1))

(* C27: the two passes apply the same block-scanning state machine: a line *)
(* is taken as a data row by process_data_blocks exactly when it is taken  *)
(* as a data row by extract_frequency, and after every line the two passes *)
(* agree on whether a block is open.                                       *)
C27_BothPassesScanTheSameBlocks ==
    [][Scanned =>
          /\ TakenByProcessDataBlocks <=> TakenByExtractFrequency
          /\ (current_header' # None) <=> within_data_block']_vars

----------------------------------------------------------------------------
(* the largest raw value of the series *)
LargestValue ==
    CHOOSE v \in Range(temp_df.values) : \A w \in Range(temp_df.values) : w <= v

LargestFlaggedValue ==
    CHOOSE v \in {temp_df.values[i] : i \in is_local_maxima} :
        \A i \in is_local_maxima : temp_df.values[i] <= v

----------------------------------------------------------------------------
(* the two functions have returned on the same file *)
BothReturned == pc = "done" /\ result = "returned"

(* the key of parse_pch_file for a channel key of process_data_blocks: the *)
(* response kind, the node id as the integer it denotes, the DOF           *)
response_type == ("ACCE" :> "acceleration") @@ ("DISP" :> "displacement")
DatabaseKey(k) == <<response_type[k[1]], IntValue[k[2]], k[3]>>

(* the values of a list of (frequency, value) pairs *)
values_of(pairs) == [i \in 1..Len(pairs) |-> pairs[i][2]]

(* C29: on every input parse_pch_file and process_data_blocks recover the  *)
(* same set of (response kind, node id, DOF) channels and, for each        *)
(* channel, the same sequence of values in the same order.                 *)
C29_BothParsersRecoverTheSameChannels ==
    BothReturned
       => /\ {DatabaseKey(k) : k \in DOMAIN data_dict} = DOMAIN data
          /\ \A k \in DOMAIN data_dict :
                DatabaseKey(k) \in DOMAIN data
                   => data_dict[k] = values_of(data[DatabaseKey(k)])

----------------------------------------------------------------------------
(* C30: for a current and a baseline table with the same rows and the same *)
(* node columns, compute_delta and create_delta_files produce the same     *)
(* delta table cell for cell, the cells where the current value, the       *)
(* baseline value or both are missing included.                            *)
C30_BothDeltasAgree ==
    (/\ delta_result = "True"
     /\ compute_delta_result = "returned"
     /\ current_df.Measurement = baseline_df.Measurement
     /\ node_cols(current_df) = node_cols(baseline_df))
       => delta_df = delta

====
